---- MODULE Spec2Model ----
(***************************************************************************)
(* Zip Unlimited: the puzzle generator (backbiting Hamiltonian path and    *)
(* checkpoint placement), the move validator, the win/fail classifier and  *)
(* the game session that uses them.                                        *)
(*                                                                         *)
(* Path indices are 0-based as in the source; At(s, i) reads element i of  *)
(* a sequence.  A cell is a record [x, y]; the "x,y" string key of the     *)
(* source is the pair <<x, y>>.                                            *)
(***************************************************************************)
EXTENDS Integers, Sequences, FiniteSets, TLC

VARIABLES
    difficulty,     \* App: the selected tier
    phase,          \* position in the program: "rewire", "place", "play", "logic", ...
    tier,           \* generator: the sizes the running generatePuzzle call works with
    genPath,        \* generator: the local `path` of generateHamiltonianPathRewired
    indexMap,       \* generator: key -> index in genPath
    k,              \* generator: rewire loop counter
    lastRewire,     \* generator: what the last loop iteration did
    indices,        \* generatePuzzle: the chosen checkpoint indices
    attempts,       \* generatePuzzle: the placement loop counter
    rng,            \* the source Math.random() draws from
    config,         \* App: the PuzzleConfig (Null before the first puzzle)
    path,           \* App: gameState.path
    history,        \* App: gameState.history
    isComplete,     \* App: gameState.isComplete
    errorMessage,   \* App: errorMessage (Null when none)
    showWinModal,   \* App: showWinModal
    winTimers,      \* App: pending setTimeout(() => setShowWinModal(true), 500)
    showClearModal, \* App: showClearModal
    inputMode,      \* App: inputMode
    isDragging,     \* Board: isDragging
    bfsQueue,       \* findShortestPath: `queue`, the {point, path} items waiting
    bfsVisited,     \* findShortestPath: `visited`, the keys marked
    bfsTarget,      \* findShortestPath: `target`, the cell searched for
    call            \* the last call of a pure function: its arguments and result

genVars == <<tier, genPath, indexMap, k, lastRewire, indices, attempts, rng>>
gameVars == <<path, history, isComplete, errorMessage>>
uiVars == <<showWinModal, winTimers, showClearModal, inputMode, isDragging>>
searchVars == <<bfsQueue, bfsVisited, bfsTarget>>
vars == <<difficulty, phase, tier, genPath, indexMap, k, lastRewire, indices, attempts,
          rng, config, path, history, isComplete, errorMessage, showWinModal, winTimers,
          showClearModal, inputMode, isDragging, bfsQueue, bfsVisited, bfsTarget, call>>

\* ---------------------------------------------------------------- bounds

\* Rewire iterations of the smallest tier the generator is explored with.
MaxIterations == 1
\* Attempt budget of the randomized placement phase (2000 in the source).
MaxAttempts == 3
\* Longest undo history the session is explored with.
MaxHistory == 1
\* Most checkpoints of the configurations the pure functions are applied to.
MaxCheckpoints == 3
\* Most checkpoints of the configurations the path finders are applied to.
MaxSearchCheckpoints == 3
\* Most win timeouts pending at once.
MaxTimers == 1
\* Number of seeds the generator of the source's tiers is run from.
MaxSeeds == 2
\* Largest number of seconds formatTime is applied to.
MaxSeconds == 6005

\* ---------------------------------------------------------------- values

Null == "null"
\* No pure function has been called yet.
NoCall == [fn |-> "none"]
Difficulties == {"Easy", "Medium", "Hard"}
InputModes == {"both", "drag", "click"}

At(s, i) == s[i + 1]
\* Array.prototype.slice(from, to) and slice(from)
Slice(s, from, to) == SubSeq(s, from + 1, to)
SliceFrom(s, from) == SubSeq(s, from + 1, Len(s))
Reverse(s) == [i \in 1..Len(s) |-> s[Len(s) + 1 - i]]
Abs(n) == IF n < 0 THEN -n ELSE n
Range(s) == {s[i] : i \in 1..Len(s)}

Point(px, py) == [x |-> px, y |-> py]

\* ---------------------------------------------------------------- logic.ts

pointToString(p) == <<p.x, p.y>>
stringToPoint(s) == [x |-> s[1], y |-> s[2]]

\* Variant of isAdjacent: diagonal neighbours count as adjacent.
isAdjacentOrDiagonal(a, b) ==
    LET dx == Abs(a.x - b.x)
        dy == Abs(a.y - b.y)
    IN  dx <= 1 /\ dy <= 1 /\ dx + dy >= 1

isAdjacent(a, b) ==
    LET dx == Abs(a.x - b.x)
        dy == Abs(a.y - b.y)
    IN  (dx = 1 /\ dy = 0) \/ (dx = 0 /\ dy = 1)

\* for (const p of path) { val = checkpoints[key]; if (val && val > max) max = val }
RECURSIVE MaxCheckpointFrom(_, _, _, _)
MaxCheckpointFrom(p, checkpoints, i, max) ==
    IF i >= Len(p) THEN max
    ELSE LET key == pointToString(At(p, i))
         IN  IF key \in DOMAIN checkpoints /\ checkpoints[key] # 0 /\ checkpoints[key] > max
             THEN MaxCheckpointFrom(p, checkpoints, i + 1, checkpoints[key])
             ELSE MaxCheckpointFrom(p, checkpoints, i + 1, max)

\* Variant of getCurrentMaxCheckpoint: the rank of the last checkpoint on the path.
LastCheckpointOn(p, checkpoints) ==
    IF \E i \in 1..Len(p) : pointToString(p[i]) \in DOMAIN checkpoints
    THEN LET i == CHOOSE i \in 1..Len(p) :
                      /\ pointToString(p[i]) \in DOMAIN checkpoints
                      /\ \A j \in (i + 1)..Len(p) : pointToString(p[j]) \notin DOMAIN checkpoints
         IN  checkpoints[pointToString(p[i])]
    ELSE 0

getCurrentMaxCheckpoint(p, checkpoints) == MaxCheckpointFrom(p, checkpoints, 0, 0)

\* Variant of isValidMove: a checkpoint is entered like any other cell,
\* whatever its rank.
isValidMoveUnordered(currentPath, nextPoint, cfg) ==
    LET head == At(currentPath, Len(currentPath) - 1)
        nextKey == pointToString(nextPoint)
    IN  IF ~isAdjacent(head, nextPoint) THEN FALSE
        ELSE IF nextPoint.x < 0 \/ nextPoint.x >= cfg.width
                \/ nextPoint.y < 0 \/ nextPoint.y >= cfg.height THEN FALSE
        ELSE IF \E i \in 1..Len(currentPath) : pointToString(currentPath[i]) = nextKey
             THEN FALSE
        ELSE TRUE

\* Variant of isValidMove: a checkpoint may be entered when its rank is above
\* the highest rank on the path.
isValidMoveAnyHigher(currentPath, nextPoint, cfg) ==
    LET head == At(currentPath, Len(currentPath) - 1)
        nextKey == pointToString(nextPoint)
        currentMax == getCurrentMaxCheckpoint(currentPath, cfg.checkpoints)
    IN  IF ~isAdjacent(head, nextPoint) THEN FALSE
        ELSE IF nextPoint.x < 0 \/ nextPoint.x >= cfg.width
                \/ nextPoint.y < 0 \/ nextPoint.y >= cfg.height THEN FALSE
        ELSE IF \E i \in 1..Len(currentPath) : pointToString(currentPath[i]) = nextKey
             THEN FALSE
        ELSE IF nextKey \in DOMAIN cfg.checkpoints
             THEN (IF cfg.checkpoints[nextKey] <= currentMax THEN FALSE ELSE TRUE)
        ELSE TRUE

isValidMove(currentPath, nextPoint, cfg) ==
    LET head == At(currentPath, Len(currentPath) - 1)
        nextKey == pointToString(nextPoint)
        currentMax == getCurrentMaxCheckpoint(currentPath, cfg.checkpoints)
    IN  IF ~isAdjacent(head, nextPoint) THEN FALSE
        ELSE IF nextPoint.x < 0 \/ nextPoint.x >= cfg.width
                \/ nextPoint.y < 0 \/ nextPoint.y >= cfg.height THEN FALSE
        ELSE IF \E i \in 1..Len(currentPath) : pointToString(currentPath[i]) = nextKey
             THEN FALSE
        ELSE IF nextKey \in DOMAIN cfg.checkpoints
             THEN (IF cfg.checkpoints[nextKey] # currentMax + 1 THEN FALSE ELSE TRUE)
        ELSE TRUE

\* Object.keys(config.checkpoints).length
TotalCheckpoints(cfg) == Cardinality(DOMAIN cfg.checkpoints)

\* Variant of HeadOnFinal: the head carries a checkpoint, whatever its rank.
HeadOnCheckpoint(p, cfg) ==
    pointToString(At(p, Len(p) - 1)) \in DOMAIN cfg.checkpoints

\* config.checkpoints[headKey] === totalCheckpoints (undefined is never equal)
HeadOnFinal(p, cfg) ==
    LET headKey == pointToString(At(p, Len(p) - 1))
    IN  /\ headKey \in DOMAIN cfg.checkpoints
        /\ cfg.checkpoints[headKey] = TotalCheckpoints(cfg)

\* Variant of checkWin: a full board wins wherever it ends.
checkWinAnywhere(p, cfg) ==
    IF Len(p) # cfg.width * cfg.height THEN FALSE
    ELSE TRUE

checkWin(p, cfg) ==
    IF Len(p) # cfg.width * cfg.height THEN FALSE
    ELSE HeadOnFinal(p, cfg)

\* Variant of checkInvalidFullBoard: only a full board ending off every checkpoint.
checkInvalidFullBoardOffCheckpoint(p, cfg) ==
    IF Len(p) # cfg.width * cfg.height THEN FALSE
    ELSE pointToString(At(p, Len(p) - 1)) \notin DOMAIN cfg.checkpoints

checkInvalidFullBoard(p, cfg) ==
    IF Len(p) # cfg.width * cfg.height THEN FALSE
    ELSE ~HeadOnFinal(p, cfg)

\* Variant of checkInvalidNotFull: without the test that the board is not full.
checkInvalidNotFullOrFull(p, cfg) ==
    getCurrentMaxCheckpoint(p, cfg.checkpoints) = TotalCheckpoints(cfg)

checkInvalidNotFull(p, cfg) ==
    IF Len(p) = cfg.width * cfg.height THEN FALSE
    ELSE getCurrentMaxCheckpoint(p, cfg.checkpoints) = TotalCheckpoints(cfg)

shouldAllowDrag(mode) == mode = "drag" \/ mode = "both"
\* shouldAllowClick without the mode test: every mode lets a click through.
shouldAllowClickAlways(mode) == mode \in {"click", "both", "drag"}

shouldAllowClick(mode) == mode = "click" \/ mode = "both"

\* A string is the sequence of its characters.
DigitChar(d) ==
    CASE d = 0 -> "0" [] d = 1 -> "1" [] d = 2 -> "2" [] d = 3 -> "3" [] d = 4 -> "4"
      [] d = 5 -> "5" [] d = 6 -> "6" [] d = 7 -> "7" [] d = 8 -> "8" [] d = 9 -> "9"

\* Number.prototype.toString() of a whole number n >= 0: its decimal digits.
RECURSIVE NumberToString(_)
NumberToString(n) ==
    IF n < 10 THEN <<DigitChar(n)>>
    ELSE Append(NumberToString(n \div 10), DigitChar(n % 10))

\* padStart that pads nothing.
padStartNever(str, targetLength, padChar) == str

\* String.prototype.padStart(targetLength, padChar) with a one-character pad.
padStart(str, targetLength, padChar) ==
    IF Len(str) >= targetLength THEN str
    ELSE [i \in 1..(targetLength - Len(str)) |-> padChar] \o str

formatTime(seconds) ==
    LET m == seconds \div 60
        s == seconds % 60
    IN  padStart(NumberToString(m), 2, "0") \o <<":">> \o padStart(NumberToString(s), 2, "0")

\* ---------------------------------------------------------------- pathfinding.ts

Sign(n) == IF n > 0 THEN 1 ELSE IF n < 0 THEN -1 ELSE 0

\* A result of the path finders: none (null), or the cells found.
None == [found |-> FALSE, cells |-> <<>>]
Some(cells) == [found |-> TRUE, cells |-> cells]

\* Variant of StraightLineFrom: a rejected cell ends the walk with the cells so far.
RECURSIVE StraightLineFromPartial(_, _, _, _, _, _, _)
StraightLineFromPartial(curr, target, dx, dy, currentPath, acc, cfg) ==
    IF curr.x # target.x \/ curr.y # target.y
    THEN LET next == Point(curr.x + dx, curr.y + dy)
         IN  IF ~isValidMove(currentPath \o acc, next, cfg) THEN Some(acc)
             ELSE StraightLineFromPartial(next, target, dx, dy, currentPath,
                                          Append(acc, next), cfg)
    ELSE Some(acc)

\* while (curr !== target) { curr += (dx, dy); validate against currentPath ++ acc }
RECURSIVE StraightLineFrom(_, _, _, _, _, _, _)
StraightLineFrom(curr, target, dx, dy, currentPath, acc, cfg) ==
    IF curr.x # target.x \/ curr.y # target.y
    THEN LET next == Point(curr.x + dx, curr.y + dy)
         IN  IF ~isValidMove(currentPath \o acc, next, cfg) THEN None
             ELSE StraightLineFrom(next, target, dx, dy, currentPath, Append(acc, next), cfg)
    ELSE Some(acc)

findStraightLinePath(start, target, currentPath, cfg) ==
    IF start.x # target.x /\ start.y # target.y THEN None
    ELSE StraightLineFrom(start, target, Sign(target.x - start.x),
                          Sign(target.y - start.y), currentPath, <<>>, cfg)

\* The four neighbours of a cell in the order the search visits them.
SearchNeighbors(point) ==
    <<Point(point.x, point.y - 1), Point(point.x, point.y + 1),
      Point(point.x - 1, point.y), Point(point.x + 1, point.y)>>

\* Variant of VisitNeighbors: without the visited check of the search.
RECURSIVE VisitNeighborsRevisiting(_, _, _, _, _, _)
VisitNeighborsRevisiting(item, i, queue, visited, currentPath, cfg) ==
    IF i > 4 THEN [queue |-> queue, visited |-> visited]
    ELSE LET nb == SearchNeighbors(item.point)[i]
             nbKey == pointToString(nb)
         IN  IF isValidMove(currentPath \o item.path, nb, cfg)
             THEN VisitNeighborsRevisiting(item, i + 1,
                                 Append(queue, [point |-> nb, path |-> Append(item.path, nb)]),
                                 visited \cup {nbKey}, currentPath, cfg)
             ELSE VisitNeighborsRevisiting(item, i + 1, queue, visited, currentPath, cfg)

\* Variant of VisitNeighbors: a neighbour is enqueued when it is an unvisited
\* cell of the grid, without asking isValidMove.
RECURSIVE VisitNeighborsUnvalidated(_, _, _, _, _, _)
VisitNeighborsUnvalidated(item, i, queue, visited, currentPath, cfg) ==
    IF i > 4 THEN [queue |-> queue, visited |-> visited]
    ELSE LET nb == SearchNeighbors(item.point)[i]
             nbKey == pointToString(nb)
         IN  IF /\ nb.x >= 0 /\ nb.x < cfg.width /\ nb.y >= 0 /\ nb.y < cfg.height
                /\ nbKey \notin visited
             THEN VisitNeighborsUnvalidated(item, i + 1,
                                 Append(queue, [point |-> nb, path |-> Append(item.path, nb)]),
                                 visited \cup {nbKey}, currentPath, cfg)
             ELSE VisitNeighborsUnvalidated(item, i + 1, queue, visited, currentPath, cfg)

\* for (const nb of neighbors): the [queue, visited] after neighbours i..4 of an item.
RECURSIVE VisitNeighbors(_, _, _, _, _, _)
VisitNeighbors(item, i, queue, visited, currentPath, cfg) ==
    IF i > 4 THEN [queue |-> queue, visited |-> visited]
    ELSE LET nb == SearchNeighbors(item.point)[i]
             nbKey == pointToString(nb)
         IN  IF isValidMove(currentPath \o item.path, nb, cfg) /\ nbKey \notin visited
             THEN VisitNeighbors(item, i + 1,
                                 Append(queue, [point |-> nb, path |-> Append(item.path, nb)]),
                                 visited \cup {nbKey}, currentPath, cfg)
             ELSE VisitNeighbors(item, i + 1, queue, visited, currentPath, cfg)

\* while (queue.length > 0) { item = queue.shift(); ... }
RECURSIVE SearchLoop(_, _, _, _, _)
SearchLoop(queue, visited, target, currentPath, cfg) ==
    IF Len(queue) > 0
    THEN LET item == Head(queue)
         IN  IF pointToString(item.point) = pointToString(target) THEN Some(item.path)
             ELSE LET r == VisitNeighbors(item, 1, Tail(queue), visited, currentPath, cfg)
                  IN  SearchLoop(r.queue, r.visited, target, currentPath, cfg)
    ELSE None

findShortestPath(start, target, currentPath, cfg) ==
    SearchLoop(<<[point |-> start, path |-> <<>>]>>,
               {pointToString(currentPath[i]) : i \in 1..Len(currentPath)},
               target, currentPath, cfg)

\* ---------------------------------------------------------------- generator

DIRECTIONS == <<Point(0, -1), Point(0, 1), Point(-1, 0), Point(1, 0)>>

pointsEqual(a, b) == a.x = b.x /\ a.y = b.y

\* The tier table of generatePuzzle and generateHamiltonianPathRewired, scaled:
\* width, height, numCheckpoints, minGap and the rewire iteration count of each
\* difficulty. These are the grids the session is played on.
TierTable(d) ==
    CASE d = "Easy" ->
           [width |-> 2, height |-> 2, numCheckpoints |-> 2,
            minGap |-> 1, iterations |-> 1, attemptBudget |-> MaxAttempts]
      [] d = "Medium" ->
           [width |-> 3, height |-> 2, numCheckpoints |-> 5,
            minGap |-> 2, iterations |-> 1, attemptBudget |-> MaxAttempts]
      [] d = "Hard" ->
           [width |-> 2, height |-> 3, numCheckpoints |-> 6,
            minGap |-> 2, iterations |-> 1, attemptBudget |-> MaxAttempts]

\* The same table at the larger scale the generator alone is explored with.
WideTierTable(d) ==
    CASE d = "Easy" ->
           [width |-> 3, height |-> 2, numCheckpoints |-> 3,
            minGap |-> 2, iterations |-> MaxIterations,
            attemptBudget |-> MaxAttempts]
      [] d = "Medium" ->
           [width |-> 4, height |-> 2, numCheckpoints |-> 4,
            minGap |-> 2, iterations |-> MaxIterations + 1,
            attemptBudget |-> MaxAttempts]
      [] d = "Hard" ->
           [width |-> 3, height |-> 3, numCheckpoints |-> 5,
            minGap |-> 2, iterations |-> MaxIterations + 2,
            attemptBudget |-> MaxAttempts]

generateSerpentinePath(width, height) ==
    [i \in 1..(width * height) |->
        LET y == (i - 1) \div width
            c == (i - 1) % width
        IN  IF y % 2 = 0 THEN Point(c, y) ELSE Point(width - 1 - c, y)]

\* path.forEach((p, i) => indexMap.set(pointToString(p), i))
InitialIndexMap(p) ==
    [key \in {pointToString(p[i]) : i \in 1..Len(p)} |->
        (CHOOSE i \in 1..Len(p) : pointToString(p[i]) = key) - 1]

\* The in-bounds grid neighbours of `end` other than `anchor`, in DIRECTIONS order.
RewireNeighbors(end, anchor, width, height) ==
    SelectSeq([i \in 1..4 |-> Point(end.x + DIRECTIONS[i].x, end.y + DIRECTIONS[i].y)],
              LAMBDA n : /\ n.x >= 0 /\ n.x < width
                         /\ n.y >= 0 /\ n.y < height
                         /\ ~pointsEqual(n, anchor))

\* indexMap.get(key) is undefined exactly when the key is absent.
MapHas(m, key) == key \in DOMAIN m
MapGet(m, key) == m[key]

\* The rewire without the loop that updates the index map.
UpdateIndexMapNever(m, p, from, to) == m

\* for (i = from; i < to; i++) indexMap.set(pointToString(path[i]), i)
UpdateIndexMap(m, p, from, to) ==
    [key \in DOMAIN m \cup {pointToString(At(p, i)) : i \in from..(to - 1)} |->
        IF \E i \in from..(to - 1) : pointToString(At(p, i)) = key
        THEN CHOOSE i \in from..(to - 1) :
                 /\ pointToString(At(p, i)) = key
                 /\ \A j \in from..(to - 1) : pointToString(At(p, j)) = key => j <= i
        ELSE m[key]]

\* What a loop iteration did: "tail" or "head" with the index it rewired at,
\* "skip" when it hit a `continue`; "seed" before the loop, "none" outside it.
Did(kind, targetIndex) == [kind |-> kind, targetIndex |-> targetIndex]

\* Variant of TailRewire: the segment after the target is re-attached unreversed.
TailRewireUnreversed(p, m, width, height, pick) ==
    LET tailIndex == Len(p) - 1
        tail == At(p, tailIndex)
        prev == At(p, tailIndex - 1)
        neighbors == RewireNeighbors(tail, prev, width, height)
    IN  IF Len(neighbors) = 0 THEN [path |-> p, indexMap |-> m, did |-> Did("skip", 0 - 1)]
        ELSE LET target == At(neighbors, pick % Len(neighbors))
                 targetIndex == MapGet(m, pointToString(target))
             IN  IF ~MapHas(m, pointToString(target))
                 THEN [path |-> p, indexMap |-> m, did |-> Did("skip", 0 - 1)]
                 ELSE LET segment == SliceFrom(p, targetIndex + 2) \o <<At(p, targetIndex + 1)>>
                          prefix == Slice(p, 0, targetIndex + 1)
                          newPath == prefix \o segment
                      IN  [path |-> newPath,
                           indexMap |-> UpdateIndexMap(m, newPath, targetIndex + 1,
                                                       width * height),
                           did |-> Did("tail", targetIndex)]

\* One iteration of the loop with mutateTail true: the new [path, indexMap, did].
TailRewire(p, m, width, height, pick) ==
    LET tailIndex == Len(p) - 1
        tail == At(p, tailIndex)
        prev == At(p, tailIndex - 1)
        neighbors == RewireNeighbors(tail, prev, width, height)
    IN  IF Len(neighbors) = 0 THEN [path |-> p, indexMap |-> m, did |-> Did("skip", 0 - 1)]
        ELSE LET target == At(neighbors, pick % Len(neighbors))
                 targetIndex == MapGet(m, pointToString(target))
             IN  IF ~MapHas(m, pointToString(target))
                 THEN [path |-> p, indexMap |-> m, did |-> Did("skip", 0 - 1)]
                 ELSE LET segment == Reverse(SliceFrom(p, targetIndex + 1))
                          prefix == Slice(p, 0, targetIndex + 1)
                          newPath == prefix \o segment
                      IN  [path |-> newPath,
                           indexMap |-> UpdateIndexMap(m, newPath, targetIndex + 1,
                                                       width * height),
                           did |-> Did("tail", targetIndex)]

\* Variant of HeadRewire: the reversed segment takes the target in (0..targetIndex).
HeadRewireThroughTarget(p, m, width, height, pick) ==
    LET head == At(p, 0)
        next == At(p, 1)
        neighbors == RewireNeighbors(head, next, width, height)
    IN  IF Len(neighbors) = 0 THEN [path |-> p, indexMap |-> m, did |-> Did("skip", 0 - 1)]
        ELSE LET target == At(neighbors, pick % Len(neighbors))
                 targetIndex == MapGet(m, pointToString(target))
             IN  IF ~MapHas(m, pointToString(target))
                 THEN [path |-> p, indexMap |-> m, did |-> Did("skip", 0 - 1)]
                 ELSE LET segment == Reverse(Slice(p, 0, targetIndex + 1))
                          suffix == SliceFrom(p, targetIndex + 1)
                          newPath == segment \o suffix
                      IN  [path |-> newPath,
                           indexMap |-> UpdateIndexMap(m, newPath, 0, targetIndex + 1),
                           did |-> Did("head", targetIndex)]

\* One iteration of the loop with mutateTail false.
HeadRewire(p, m, width, height, pick) ==
    LET head == At(p, 0)
        next == At(p, 1)
        neighbors == RewireNeighbors(head, next, width, height)
    IN  IF Len(neighbors) = 0 THEN [path |-> p, indexMap |-> m, did |-> Did("skip", 0 - 1)]
        ELSE LET target == At(neighbors, pick % Len(neighbors))
                 targetIndex == MapGet(m, pointToString(target))
             IN  IF ~MapHas(m, pointToString(target))
                 THEN [path |-> p, indexMap |-> m, did |-> Did("skip", 0 - 1)]
                 ELSE LET segment == Reverse(Slice(p, 0, targetIndex))
                          suffix == SliceFrom(p, targetIndex)
                          newPath == segment \o suffix
                      IN  [path |-> newPath,
                           indexMap |-> UpdateIndexMap(m, newPath, 0, targetIndex),
                           did |-> Did("head", targetIndex)]

\* The table as the source has it: the switch of generatePuzzle, the switch of
\* generateHamiltonianPathRewired and the attempt limit of the placement loop.
SourceTierTable(d) ==
    CASE d = "Easy" ->
           [width |-> 6, height |-> 6, numCheckpoints |-> 8,
            minGap |-> 3, iterations |-> 300, attemptBudget |-> 2000]
      [] d = "Medium" ->
           [width |-> 8, height |-> 8, numCheckpoints |-> 14,
            minGap |-> 3, iterations |-> 800, attemptBudget |-> 2000]
      [] d = "Hard" ->
           [width |-> 10, height |-> 10, numCheckpoints |-> 20,
            minGap |-> 4, iterations |-> 2000, attemptBudget |-> 2000]

\* The loop limits of the source (300, 800, 2000 iterations, 2000 attempts) on
\* the smallest grids: placement succeeds at once (Easy), succeeds or runs out
\* of attempts (Medium), always runs out of attempts (Hard).
LoopTierTable(d) ==
    CASE d = "Easy" ->
           [width |-> 2, height |-> 2, numCheckpoints |-> 3,
            minGap |-> 1, iterations |-> 300, attemptBudget |-> 2000]
      [] d = "Medium" ->
           [width |-> 3, height |-> 2, numCheckpoints |-> 3,
            minGap |-> 2, iterations |-> 800, attemptBudget |-> 2000]
      [] d = "Hard" ->
           [width |-> 2, height |-> 2, numCheckpoints |-> 3,
            minGap |-> 2, iterations |-> 2000, attemptBudget |-> 2000]

\* ---------------------------------------------------------------- Math.random()

\* The draws of Math.random() are inputs of the generator. On the scaled
\* grids every outcome of every draw is taken (AnyDraw). On the grids of the
\* source the draws are the sequence of a small congruential generator, one
\* sequence per seed: the draw is s / 4096.
AnyDraw == [seeded |-> FALSE, s |-> 0]

\* The seeds: spread over the period of the generator.
Seeds == {1000 * i + 7 : i \in 0..(MaxSeeds - 1)}

Seeded(seed) == [seeded |-> TRUE, s |-> seed]

\* The source after one call of Math.random().
NextRandom(r) == IF r.seeded THEN [r EXCEPT !.s = (1229 * r.s + 1) % 4096] ELSE r

\* The source after n calls of Math.random().
RECURSIVE NthRandom(_, _)
NthRandom(r, n) ==
    IF n <= 0 THEN r
    ELSE IF n = 1 THEN NextRandom(r)
    ELSE CHOOSE x \in {NthRandom(h, n - (n \div 2)) : h \in {NthRandom(r, n \div 2)}} : TRUE

\* Math.random() > 0.5
RandomAboveHalf(r) == IF r.seeded THEN {2 * r.s > 4096} ELSE BOOLEAN

\* Math.floor(Math.random() * n)
RandomIndex(n, r) == IF r.seeded THEN {(r.s * n) \div 4096} ELSE 0..(n - 1)

\* ---------------------------------------------------------------- placement

\* Variant of isValidCandidate: the test is `Math.abs(c - idx) < minGap - 1`.
isValidCandidateCloser(c, idx, minGap) == \A i \in idx : ~(Abs(c - i) < minGap - 1)

\* isValidCandidate with the test `<= minGap`: an index exactly minGap away rejects.
isValidCandidateWider(c, idx, minGap) == \A i \in idx : ~(Abs(c - i) <= minGap)

\* const isValidCandidate = (c) => no chosen index is closer than minGap
isValidCandidate(c, idx, minGap) == \A i \in idx : ~(Abs(c - i) < minGap)

\* Math.floor(Math.random() * (pathLength - 2)) + 1
CandidateDraws(pathLength) ==
    IF pathLength - 2 <= 0 THEN {1} ELSE 1..(pathLength - 2)

\* The same draw from the source r.
CandidateDrawsOf(pathLength, r) ==
    IF r.seeded THEN {c + 1 : c \in RandomIndex(pathLength - 2, r)}
    ELSE CandidateDraws(pathLength)

\* for (i = 1; i < pathLength - 1; i++) if (!indices.has(i)) available.push(i)
AvailableFrom(i, pathLength, idx) ==
    IF i >= pathLength - 1 THEN <<>>
    ELSE SelectSeq([j \in 1..(pathLength - 1 - i) |-> i + j - 1], LAMBDA c : c \notin idx)

Swap(a, i, j) == [a EXCEPT ![i + 1] = a[j + 1], ![j + 1] = a[i + 1]]

\* The draws of the shuffle: js[i] is Math.floor(Math.random() * (i + 1)), i = 1..n.
RECURSIVE ShuffleDraws(_)
ShuffleDraws(n) ==
    IF n <= 0 THEN {<<>>}
    ELSE {Append(js, j) : js \in ShuffleDraws(n - 1), j \in 0..n}

\* The draws of the shuffle from the source r: the loop runs i = n down to 1,
\* one call of Math.random() each.
ShuffleDrawsOf(n, r) ==
    IF r.seeded
    THEN {[i \in 1..n |-> CHOOSE j \in RandomIndex(i + 1, NthRandom(r, n - i)) : TRUE]}
    ELSE ShuffleDraws(n)

\* The swaps of the shuffle loop for i = hi down to lo, the upper half first.
RECURSIVE ShuffleRange(_, _, _, _)
ShuffleRange(a, js, hi, lo) ==
    IF hi < lo THEN a
    ELSE IF hi = lo THEN Swap(a, hi, js[hi])
    ELSE LET mid == (hi + lo) \div 2
         IN  \* upper: the array after the swaps of the upper half, computed first
             CHOOSE r \in {ShuffleRange(upper, js, mid, lo) :
                             upper \in {ShuffleRange(a, js, hi, mid + 1)}} : TRUE

\* for (i = available.length - 1; i > 0; i--) swap(available[i], available[js[i]])
ShuffleFrom(a, js, i) == ShuffleRange(a, js, i, 1)

\* Variant of TakeAvailable: the loop test is `indices.size <= numCheckpoints`.
RECURSIVE TakeAvailableInclusive(_, _, _, _)
TakeAvailableInclusive(idx, available, ptr, numCheckpoints) ==
    IF Cardinality(idx) <= numCheckpoints /\ ptr < Len(available)
    THEN CHOOSE r \in {TakeAvailableInclusive(added, available, ptr + 1, numCheckpoints) :
                         added \in {idx \cup {At(available, ptr)}}} : TRUE
    ELSE idx

\* while (indices.size < numCheckpoints && ptr < available.length) indices.add(available[ptr++])
RECURSIVE TakeAvailable(_, _, _, _)
TakeAvailable(idx, available, ptr, numCheckpoints) ==
    IF Cardinality(idx) < numCheckpoints /\ ptr < Len(available)
    THEN CHOOSE r \in {TakeAvailable(added, available, ptr + 1, numCheckpoints) :
                         added \in {idx \cup {At(available, ptr)}}} : TRUE
    ELSE idx

\* The fallback of generatePuzzle, with the draws js of its shuffle.
Fallback(idx, pathLength, numCheckpoints, js) ==
    IF Cardinality(idx) < numCheckpoints
    THEN LET available == AvailableFrom(1, pathLength, idx)
             shuffled == ShuffleFrom(available, js, Len(available) - 1)
         IN  TakeAvailable(idx, shuffled, 0, numCheckpoints)
    ELSE idx

\* Variant of SortedIndices: the default sort of Array.prototype.sort, descending here.
SortedIndicesDescending(idx) ==
    [i \in 1..Cardinality(idx) |->
        CHOOSE a \in idx : Cardinality({b \in idx : b > a}) = i - 1]

\* Array.from(indices).sort((a, b) => a - b)
SortedIndices(idx) ==
    [i \in 1..Cardinality(idx) |->
        CHOOSE a \in idx : Cardinality({b \in idx : b < a}) = i - 1]

\* Variant of AssignCheckpoints: ranks start at 0 (the forEach index itself).
AssignCheckpointsFromZero(p, sortedIndices) ==
    [key \in {pointToString(At(p, At(sortedIndices, i))) : i \in 0..(Len(sortedIndices) - 1)} |->
        (CHOOSE i \in 0..(Len(sortedIndices) - 1) :
            /\ pointToString(At(p, At(sortedIndices, i))) = key
            /\ \A j \in 0..(Len(sortedIndices) - 1) :
                 pointToString(At(p, At(sortedIndices, j))) = key => j <= i)]

\* sortedIndices.forEach((pathIdx, i) => checkpoints[pointToString(path[pathIdx])] = i + 1)
AssignCheckpoints(p, sortedIndices) ==
    [key \in {pointToString(At(p, At(sortedIndices, i))) : i \in 0..(Len(sortedIndices) - 1)} |->
        (CHOOSE i \in 0..(Len(sortedIndices) - 1) :
            /\ pointToString(At(p, At(sortedIndices, i))) = key
            /\ \A j \in 0..(Len(sortedIndices) - 1) :
                 pointToString(At(p, At(sortedIndices, j))) = key => j <= i) + 1]

\* The PuzzleConfig generatePuzzle returns.
MakeConfig(t, p, idx) ==
    [width |-> t.width,
     height |-> t.height,
     checkpoints |-> AssignCheckpoints(p, SortedIndices(idx)),
     solutionPath |-> p]

\* Object.entries(checkpoints).find(([_, val]) => val === 1), then stringToPoint
\* The start taken as the default { x: 0, y: 0 } without the search for rank 1.
StartPointOrigin(cfg) == Point(0, 0)

StartPoint(cfg) ==
    IF \E key \in DOMAIN cfg.checkpoints : cfg.checkpoints[key] = 1
    THEN stringToPoint(CHOOSE key \in DOMAIN cfg.checkpoints : cfg.checkpoints[key] = 1)
    ELSE Point(0, 0)

\* ---------------------------------------------------------------- generation

\* The number of neighbours the iteration picks among (1 when it has none to pick).
PickCount(p, mutateTail, width, height) ==
    LET n == IF mutateTail
             THEN Len(RewireNeighbors(At(p, Len(p) - 1), At(p, Len(p) - 2), width, height))
             ELSE Len(RewireNeighbors(At(p, 0), At(p, 1), width, height))
    IN  IF n = 0 THEN 1 ELSE n

\* The calls of Math.random() in the iteration: one for mutateTail, one for
\* the neighbour unless `neighbors.length === 0` ends the iteration first.
RandomCalls(p, mutateTail, width, height) ==
    LET n == IF mutateTail
             THEN Len(RewireNeighbors(At(p, Len(p) - 1), At(p, Len(p) - 2), width, height))
             ELSE Len(RewireNeighbors(At(p, 0), At(p, 1), width, height))
    IN  IF n = 0 THEN 1 ELSE 2

\* One iteration of `for (k = 0; k < iterations; k++)`.
RewireStep ==
    /\ phase = "rewire"
    /\ k < tier.iterations
    /\ \E mutateTail \in RandomAboveHalf(rng) :
         \E pick \in RandomIndex(PickCount(genPath, mutateTail, tier.width, tier.height),
                                 NextRandom(rng)) :
           \* r: what the iteration leaves, computed once
           \E r \in {IF mutateTail
                     THEN TailRewire(genPath, indexMap, tier.width, tier.height, pick)
                     ELSE HeadRewire(genPath, indexMap, tier.width, tier.height, pick)} :
               /\ genPath' = r.path
               /\ indexMap' = r.indexMap
               /\ lastRewire' = r.did
               /\ rng' = NthRandom(rng, RandomCalls(genPath, mutateTail,
                                                    tier.width, tier.height))
    /\ k' = k + 1
    /\ UNCHANGED <<difficulty, phase, tier, indices, attempts, config,
                   gameVars, uiVars, call, searchVars>>

\* Variant of RewireDone: the loop test is `k < iterations - 1`.
RewireDoneEarly ==
    /\ phase = "rewire"
    /\ k >= tier.iterations - 1
    /\ phase' = "place"
    /\ indices' = {0, Len(genPath) - 1}
    /\ attempts' = 0
    /\ UNCHANGED <<difficulty, tier, genPath, indexMap, k, lastRewire, rng, config,
                   gameVars, uiVars, call, searchVars>>

\* The loop ends: the path is returned to generatePuzzle, which seeds `indices`.
RewireDone ==
    /\ phase = "rewire"
    /\ k >= tier.iterations
    /\ phase' = "place"
    /\ indices' = {0, Len(genPath) - 1}
    /\ attempts' = 0
    /\ UNCHANGED <<difficulty, tier, genPath, indexMap, k, lastRewire, rng, config,
                   gameVars, uiVars, call, searchVars>>

\* One iteration of `while (indices.size < numCheckpoints && attempts < 2000)`.
PlaceAttempt ==
    /\ phase = "place"
    /\ Cardinality(indices) < tier.numCheckpoints
    /\ attempts < tier.attemptBudget
    /\ attempts' = attempts + 1
    /\ rng' = NextRandom(rng)
    /\ \E c \in CandidateDrawsOf(Len(genPath), rng) :
         indices' = IF c \notin indices
                       /\ isValidCandidate(c, indices, tier.minGap)
                    THEN indices \cup {c}
                    ELSE indices
    /\ UNCHANGED <<difficulty, phase, tier, genPath, indexMap, k, lastRewire, config,
                   gameVars, uiVars, call, searchVars>>

\* The placement loop ends: fallback, ranks, generatePuzzle returns and
\* startNewGame installs the puzzle and resets the session.
PlaceFinish ==
    /\ phase = "place"
    /\ ~(Cardinality(indices) < tier.numCheckpoints
         /\ attempts < tier.attemptBudget)
    /\ \E js \in (IF Cardinality(indices) < tier.numCheckpoints
                  THEN ShuffleDrawsOf(Len(AvailableFrom(1, Len(genPath), indices)) - 1, rng)
                  ELSE {<<>>}) :
         \* chosen, newConfig: computed once
         \E chosen \in {Fallback(indices, Len(genPath), tier.numCheckpoints, js)} :
           \E newConfig \in {MakeConfig(tier, genPath, chosen)} :
             /\ config' = newConfig
             /\ path' = <<StartPoint(newConfig)>>
    /\ history' = <<>>
    /\ isComplete' = FALSE
    /\ showWinModal' = FALSE
    /\ errorMessage' = Null
    /\ phase' = "play"
    \* the locals of the generator are gone
    /\ tier' = Null
    /\ genPath' = <<>>
    /\ indexMap' = <<>>
    /\ k' = 0
    /\ lastRewire' = Did("none", 0 - 1)
    /\ indices' = {}
    /\ attempts' = 0
    /\ rng' = IF Cardinality(indices) < tier.numCheckpoints
              THEN NthRandom(rng, Len(AvailableFrom(1, Len(genPath), indices)) - 1)
              ELSE rng
    /\ UNCHANGED <<difficulty, winTimers, showClearModal, inputMode, isDragging, call, searchVars>>

GenNext == RewireStep \/ RewireDone \/ PlaceAttempt \/ PlaceFinish

\* The smaller of two numbers.
Min(a, b) == IF a <= b THEN a ELSE b

\* The draws of the placement loop that add the next checkpoint in path order
\* and leave no acceptable candidate behind it: c lies after every chosen
\* index but the last cell's, is accepted, and once it is chosen no candidate
\* between its predecessor and c is acceptable.  The window is three gaps wide.
NextCheckpointDraws(idx, pathLength, minGap) ==
    LET a == CHOOSE i \in idx \ {pathLength - 1} :
                 \A j \in idx \ {pathLength - 1} : j <= i
    IN  {c \in (a + 1)..Min(a + 3 * minGap, pathLength - 2) :
           /\ isValidCandidate(c, idx, minGap)
           /\ \A b \in (a + 1)..(c - 1) : ~isValidCandidate(b, idx \cup {c}, minGap)}

\* An iteration of the placement loop whose draw is one of NextCheckpointDraws,
\* while at least two checkpoints are still to be chosen.
PlaceNextCheckpoint ==
    /\ phase = "place"
    /\ Cardinality(indices) + 1 < tier.numCheckpoints
    /\ attempts < tier.attemptBudget
    /\ attempts' = attempts + 1
    /\ rng' = NextRandom(rng)
    /\ \E c \in CandidateDrawsOf(Len(genPath), rng)
                 \cap NextCheckpointDraws(indices, Len(genPath), tier.minGap) :
         indices' = IF c \notin indices
                       /\ isValidCandidate(c, indices, tier.minGap)
                    THEN indices \cup {c}
                    ELSE indices
    /\ UNCHANGED <<difficulty, phase, tier, genPath, indexMap, k, lastRewire, config,
                   gameVars, uiVars, call, searchVars>>

PlacementNext == RewireDone \/ PlaceNextCheckpoint

\* The Easy and Medium tiers of the source at the end of the rewiring loop,
\* on the path the loop started from: the last two iterations were a tail
\* rewire and the tail rewire that undoes it.
PlacementInit ==
    /\ \E d \in {"Easy", "Medium"} :
         LET t == SourceTierTable(d)
             seed == generateSerpentinePath(t.width, t.height)
             once == TailRewire(seed, InitialIndexMap(seed), t.width, t.height, 0)
             back == CHOOSE r \in {TailRewire(once.path, once.indexMap,
                                              t.width, t.height, pick) : pick \in 0..3} :
                         r.path = seed
         IN  /\ difficulty = d
             /\ tier = t
             /\ genPath = back.path
             /\ indexMap = back.indexMap
             /\ lastRewire = back.did
             /\ k = t.iterations
    /\ phase = "rewire"
    /\ indices = {}
    /\ attempts = 0
    /\ rng = AnyDraw
    /\ config = Null
    /\ path = <<>>
    /\ history = <<>>
    /\ isComplete = FALSE
    /\ errorMessage = Null
    /\ showWinModal = FALSE
    /\ winTimers = 0
    /\ showClearModal = FALSE
    /\ inputMode = "both"
    /\ isDragging = FALSE
    /\ bfsQueue = <<>>
    /\ bfsVisited = {}
    /\ bfsTarget = Null
    /\ call = NoCall

\* The placement loop of the Easy and Medium tiers along the draws of
\* NextCheckpointDraws.  A set of chosen indices that leaves no candidate
\* acceptable has no acceptable candidate between any two neighbouring
\* indices, so it is reached by choosing its members in path order, each
\* leaving no acceptable candidate behind: every such set is a state here.
SpecPlacement == PlacementInit /\ [][PlacementNext]_vars

\* generatePuzzle entered for any tier, the session as the App constructs it.
GenInit ==
    /\ \E d \in Difficulties :
         \E t \in {TierTable(d), WideTierTable(d)} :
           LET seed == generateSerpentinePath(t.width, t.height)
           IN  /\ difficulty = d
               /\ tier = t
               /\ genPath = seed
               /\ indexMap = InitialIndexMap(seed)
    /\ phase = "rewire"
    /\ k = 0
    /\ lastRewire = Did("seed", 0 - 1)
    /\ indices = {}
    /\ attempts = 0
    /\ rng = AnyDraw
    /\ config = Null
    /\ path = <<>>
    /\ history = <<>>
    /\ isComplete = FALSE
    /\ errorMessage = Null
    /\ showWinModal = FALSE
    /\ winTimers = 0
    /\ showClearModal = FALSE
    /\ inputMode = "both"
    /\ isDragging = FALSE
    /\ bfsQueue = <<>>
    /\ bfsVisited = {}
    /\ bfsTarget = Null
    /\ call = NoCall

SpecGen == GenInit /\ [][GenNext]_vars

\* generatePuzzle entered for a tier of the source, the draws of Math.random()
\* following one of the seeds.
SourceInit ==
    /\ \E d \in Difficulties :
         LET t == SourceTierTable(d)
             seed == generateSerpentinePath(t.width, t.height)
         IN  /\ difficulty = d
             /\ tier = t
             /\ genPath = seed
             /\ indexMap = InitialIndexMap(seed)
    /\ phase = "rewire"
    /\ k = 0
    /\ lastRewire = Did("seed", 0 - 1)
    /\ indices = {}
    /\ attempts = 0
    /\ rng \in {Seeded(seed) : seed \in Seeds}
    /\ config = Null
    /\ path = <<>>
    /\ history = <<>>
    /\ isComplete = FALSE
    /\ errorMessage = Null
    /\ showWinModal = FALSE
    /\ winTimers = 0
    /\ showClearModal = FALSE
    /\ inputMode = "both"
    /\ isDragging = FALSE
    /\ bfsQueue = <<>>
    /\ bfsVisited = {}
    /\ bfsTarget = Null
    /\ call = NoCall

SpecSource == SourceInit /\ [][GenNext]_vars

\* generatePuzzle entered with the loop limits of the source on the smallest
\* grids, every outcome of every draw taken.
LoopsInit ==
    /\ \E d \in Difficulties :
         LET t == LoopTierTable(d)
             seed == generateSerpentinePath(t.width, t.height)
         IN  /\ difficulty = d
             /\ tier = t
             /\ genPath = seed
             /\ indexMap = InitialIndexMap(seed)
    /\ phase = "rewire"
    /\ k = 0
    /\ lastRewire = Did("seed", 0 - 1)
    /\ indices = {}
    /\ attempts = 0
    /\ rng = AnyDraw
    /\ config = Null
    /\ path = <<>>
    /\ history = <<>>
    /\ isComplete = FALSE
    /\ errorMessage = Null
    /\ showWinModal = FALSE
    /\ winTimers = 0
    /\ showClearModal = FALSE
    /\ inputMode = "both"
    /\ isDragging = FALSE
    /\ bfsQueue = <<>>
    /\ bfsVisited = {}
    /\ bfsTarget = Null
    /\ call = NoCall

SpecLoops == LoopsInit /\ [][GenNext]_vars

\* ---------------------------------------------------------------- generator properties

\* p is a Hamiltonian path of the width x height grid: width*height cells,
\* every grid cell exactly once, consecutive cells 4-adjacent.
IsHamiltonianPath(p, width, height) ==
    /\ Len(p) = width * height
    /\ \A cx \in 0..(width - 1) : \A cy \in 0..(height - 1) :
         Cardinality({i \in 1..Len(p) : p[i] = Point(cx, cy)}) = 1
    /\ \A i \in 1..(Len(p) - 1) : isAdjacent(p[i], p[i + 1])

\* C1: the path of the generator is a Hamiltonian path of the tier's grid after
\* the serpentine seed and after every rewire iteration, and so is the
\* solutionPath of the puzzle generatePuzzle returns.
C1_SolutionPathHamiltonian ==
    /\ phase \in {"rewire", "place"} => IsHamiltonianPath(genPath, tier.width, tier.height)
    /\ phase = "play" =>
         IsHamiltonianPath(config.solutionPath, config.width, config.height)

\* A rewire has taken place on the 3x3 grid: the path is no longer the seed.
C1_Witness ==
    /\ phase = "rewire"
    /\ lastRewire.kind = "tail"
    /\ Len(genPath) = 9
    /\ genPath # generateSerpentinePath(tier.width, tier.height)

\* The checkpoint ranks met when reading p from index 0 on.
RECURSIVE RanksAlong(_, _)
RanksAlong(p, checkpoints) ==
    IF p = <<>> THEN <<>>
    ELSE (IF pointToString(Head(p)) \in DOMAIN checkpoints
          THEN <<checkpoints[pointToString(Head(p))]>> ELSE <<>>)
         \o RanksAlong(Tail(p), checkpoints)

\* C2: in every returned puzzle the ranks read along the solution path are
\* 1, 2, ..., N, rank 1 is on path index 0 and rank N, the number of
\* checkpoints, on the last path index.
C2_RanksAlongSolution ==
    phase = "play" =>
        LET sp == config.solutionPath
            n == Cardinality(DOMAIN config.checkpoints)
            first == pointToString(At(sp, 0))
            last == pointToString(At(sp, Len(sp) - 1))
        IN  /\ RanksAlong(sp, config.checkpoints) = [i \in 1..n |-> i]
            /\ first \in DOMAIN config.checkpoints /\ config.checkpoints[first] = 1
            /\ last \in DOMAIN config.checkpoints /\ config.checkpoints[last] = n

\* A returned puzzle with five checkpoints on a rewired 3x3 path.
C2_Witness ==
    /\ phase = "play"
    /\ Cardinality(DOMAIN config.checkpoints) = 5
    /\ config.solutionPath # generateSerpentinePath(config.width, config.height)

\* C3: every returned puzzle is solved by its own solutionPath: from the path
\* of its first cell alone, isValidMove accepts each next cell of the
\* solution in turn, and checkWin holds of the whole solution.
C3_SolvableBySolution ==
    phase = "play" =>
        LET sp == config.solutionPath
        IN  /\ \A i \in 1..(Len(sp) - 1) : isValidMove(Slice(sp, 0, i), At(sp, i), config)
            /\ checkWin(sp, config)

\* A returned puzzle whose checkpoints were completed by the fallback.
C3_Witness ==
    /\ phase = "play"
    /\ Len(config.solutionPath) = 8
    /\ \E i \in 1..6 : /\ pointToString(At(config.solutionPath, i)) \in DOMAIN config.checkpoints
                        /\ pointToString(At(config.solutionPath, i + 1)) \in DOMAIN config.checkpoints

\* ---------------------------------------------------------------- generatePuzzle as a whole

\* The [path, indexMap] states one loop iteration can produce from st.
RewireOutcomes(st, width, height) ==
    {TailRewire(st.path, st.indexMap, width, height, pick) :
        pick \in 0..(PickCount(st.path, TRUE, width, height) - 1)}
    \cup
    {HeadRewire(st.path, st.indexMap, width, height, pick) :
        pick \in 0..(PickCount(st.path, FALSE, width, height) - 1)}

\* The paths generateHamiltonianPathRewired can return after n more iterations.
RECURSIVE RewiredPaths(_, _, _, _)
RewiredPaths(states, n, width, height) ==
    IF n = 0 THEN {st.path : st \in states}
    ELSE RewiredPaths(
             UNION {{[path |-> r.path, indexMap |-> r.indexMap] :
                        r \in RewireOutcomes(st, width, height)} : st \in states},
             n - 1, width, height)

\* The index sets the randomized placement loop can end with after n more attempts.
RECURSIVE PlacedIndices(_, _, _, _, _)
PlacedIndices(sets, n, pathLength, numCheckpoints, minGap) ==
    IF n = 0 THEN sets
    ELSE PlacedIndices(
             UNION {IF Cardinality(idx) < numCheckpoints
                    THEN {IF c \notin idx /\ isValidCandidate(c, idx, minGap)
                          THEN idx \cup {c} ELSE idx : c \in CandidateDraws(pathLength)}
                    ELSE {idx} : idx \in sets},
             n - 1, pathLength, numCheckpoints, minGap)

\* The index sets generatePuzzle can rank, the fallback included.
ChosenIndices(pathLength, numCheckpoints, minGap) ==
    UNION {{Fallback(idx, pathLength, numCheckpoints, js) :
               js \in (IF Cardinality(idx) < numCheckpoints
                       THEN ShuffleDraws(Len(AvailableFrom(1, pathLength, idx)) - 1)
                       ELSE {<<>>})} :
           idx \in PlacedIndices({{0, pathLength - 1}}, MaxAttempts, pathLength,
                                 numCheckpoints, minGap)}

\* Every PuzzleConfig generatePuzzle(d) can return, over all random draws.
generatePuzzle(d) ==
    LET t == TierTable(d)
        seed == generateSerpentinePath(t.width, t.height)
        paths == RewiredPaths({[path |-> seed, indexMap |-> InitialIndexMap(seed)]},
                              t.iterations, t.width, t.height)
    IN  {MakeConfig(t, p, idx) :
            p \in paths,
            idx \in ChosenIndices(t.width * t.height, t.numCheckpoints, t.minGap)}

Puzzles == [d \in Difficulties |-> generatePuzzle(d)]

\* ---------------------------------------------------------------- session

MustEndOnFinal == "You must end on the final number."
AllSpotsFilled == "All spots must be filled."

Cells(cfg) == {Point(cx, cy) : cx \in 0..(cfg.width - 1), cy \in 0..(cfg.height - 1)}
\* The cells the Board renders (none while the App shows "Loading...").
BoardCells == IF phase = "play" THEN Cells(config) ELSE {}

\* path.findIndex(pt => pointToString(pt) === pointStr), -1 when absent
FindIndex(p, pointStr) ==
    IF \E i \in 0..(Len(p) - 1) : pointToString(At(p, i)) = pointStr
    THEN CHOOSE i \in 0..(Len(p) - 1) :
             /\ pointToString(At(p, i)) = pointStr
             /\ \A j \in 0..(Len(p) - 1) : pointToString(At(p, j)) = pointStr => i <= j
    ELSE 0 - 1

\* The error message of a path: the classifier's verdict as updatePath and
\* handleUndo compute it.
ErrorOf(p, cfg) ==
    IF ~checkWin(p, cfg)
    THEN (IF checkInvalidFullBoard(p, cfg) THEN MustEndOnFinal
          ELSE IF checkInvalidNotFull(p, cfg) THEN AllSpotsFilled
          ELSE Null)
    ELSE Null

\* updatePath ending the game on a reported condition: isComplete is set for
\* an error as for a win.
updatePathGameOver(newPath, commitToHistory, prev) ==
    LET isWin == checkWin(newPath, config)
    IN  /\ winTimers' = IF isWin THEN winTimers + 1 ELSE winTimers
        /\ errorMessage' = ErrorOf(newPath, config)
        /\ history' = IF commitToHistory THEN Append(prev.history, prev.path)
                      ELSE prev.history
        /\ path' = newPath
        /\ isComplete' = (isWin \/ ErrorOf(newPath, config) # Null)

\* updatePath(newPath, commitToHistory), applied to the state prev = [path, history].
updatePath(newPath, commitToHistory, prev) ==
    LET isWin == checkWin(newPath, config)
    IN  /\ winTimers' = IF isWin THEN winTimers + 1 ELSE winTimers
        /\ errorMessage' = ErrorOf(newPath, config)
        /\ history' = IF commitToHistory THEN Append(prev.history, prev.path)
                      ELSE prev.history
        /\ path' = newPath
        /\ isComplete' = isWin

\* Whether the model follows an update: the history and the pending timeouts
\* stay within their bounds.
WithinBounds(newPath, pushes) ==
    /\ Len(history) + pushes <= MaxHistory
    /\ checkWin(newPath, config) => winTimers < MaxTimers

Current == [path |-> path, history |-> history]
\* handleDragStartSnapshot applied to the current state
Snapshot == [path |-> path, history |-> Append(history, path)]

\* handleUndo without the re-evaluation of lines 152-163: the banner of the
\* undone path stays.
handleUndoStale ==
    IF Len(history) = 0
    THEN UNCHANGED <<gameVars, winTimers>>
    ELSE LET previousPath == At(history, Len(history) - 1)
         IN  /\ errorMessage' = errorMessage
             /\ path' = previousPath
             /\ history' = Slice(history, 0, Len(history) - 1)
             /\ isComplete' = FALSE
             /\ UNCHANGED winTimers

\* Variant of handleUndo: the path is restored and the entry stays on the
\* history.
handleUndoKeepingEntry ==
    IF Len(history) = 0
    THEN UNCHANGED <<gameVars, winTimers>>
    ELSE LET previousPath == At(history, Len(history) - 1)
         IN  /\ errorMessage' = ErrorOf(previousPath, config)
             /\ path' = previousPath
             /\ history' = history
             /\ isComplete' = FALSE
             /\ UNCHANGED winTimers

handleUndo ==
    IF Len(history) = 0
    THEN UNCHANGED <<gameVars, winTimers>>
    ELSE LET previousPath == At(history, Len(history) - 1)
         IN  /\ errorMessage' = ErrorOf(previousPath, config)
             /\ path' = previousPath
             /\ history' = Slice(history, 0, Len(history) - 1)
             /\ isComplete' = FALSE
             /\ UNCHANGED winTimers

\* handleKeyDown committing a snapshot for a key it then rejects.
KeyMoveSnapshotting(d) ==
    /\ phase = "play"
    /\ LET head == At(path, Len(path) - 1)
           next == Point(head.x + d.x, head.y + d.y)
       IN  IF ~isComplete /\ ~showClearModal /\ isValidMove(path, next, config)
           THEN /\ WithinBounds(Append(path, next), 1)
                /\ updatePath(Append(path, next), TRUE, Current)
           ELSE /\ Len(history) < MaxHistory
                /\ history' = Append(history, path)
                /\ UNCHANGED <<path, isComplete, errorMessage, winTimers>>
    /\ UNCHANGED <<difficulty, phase, genVars, config, showWinModal, showClearModal,
                   inputMode, isDragging, call, searchVars>>

\* handleKeyDown for an arrow or WASD key with direction d.
KeyMove(d) ==
    /\ phase = "play"
    /\ LET head == At(path, Len(path) - 1)
           next == Point(head.x + d.x, head.y + d.y)
       IN  IF ~isComplete /\ ~showClearModal /\ isValidMove(path, next, config)
           THEN /\ WithinBounds(Append(path, next), 1)
                /\ updatePath(Append(path, next), TRUE, Current)
           ELSE UNCHANGED <<gameVars, winTimers>>
    /\ UNCHANGED <<difficulty, phase, genVars, config, showWinModal, showClearModal,
                   inputMode, isDragging, call, searchVars>>

\* handleKeyDown for Ctrl+Z.
KeyUndo ==
    /\ phase = "play"
    /\ IF ~isComplete /\ ~showClearModal THEN handleUndo
       ELSE UNCHANGED <<gameVars, winTimers>>
    /\ UNCHANGED <<difficulty, phase, genVars, config, showWinModal, showClearModal,
                   inputMode, isDragging, call, searchVars>>

\* The Undo button (disabled while the history is empty).
UndoButton ==
    /\ phase = "play"
    /\ Len(history) > 0
    /\ handleUndo
    /\ UNCHANGED <<difficulty, phase, genVars, config, showWinModal, showClearModal,
                   inputMode, isDragging, call, searchVars>>

\* handleInteractStart(p): a pointer press (or touch start) on cell p.
Press(p) ==
    /\ phase = "play"
    /\ LET head == At(path, Len(path) - 1)
           pointStr == pointToString(p)
           isHead == pointStr = pointToString(head)
           existingIndex == FindIndex(path, pointStr)
           straight == findStraightLinePath(head, p, path, config)
           extension == IF ~straight.found THEN findShortestPath(head, p, path, config)
                        ELSE straight
       IN  IF isComplete THEN UNCHANGED <<gameVars, winTimers, isDragging>>
           ELSE IF isHead
           THEN IF shouldAllowDrag(inputMode)
                THEN /\ Len(history) < MaxHistory
                     /\ history' = Append(history, path)
                     /\ isDragging' = TRUE
                     /\ UNCHANGED <<path, isComplete, errorMessage, winTimers>>
                ELSE UNCHANGED <<gameVars, winTimers, isDragging>>
           ELSE IF ~shouldAllowClick(inputMode)
           THEN UNCHANGED <<gameVars, winTimers, isDragging>>
           ELSE IF existingIndex # 0 - 1
           THEN /\ WithinBounds(Slice(path, 0, existingIndex + 1), 1)
                /\ updatePath(Slice(path, 0, existingIndex + 1), FALSE, Snapshot)
                /\ UNCHANGED isDragging
           ELSE IF extension.found
           THEN /\ WithinBounds(path \o extension.cells, 1)
                /\ updatePath(path \o extension.cells, TRUE, Current)
                /\ UNCHANGED isDragging
           ELSE UNCHANGED <<gameVars, winTimers, isDragging>>
    /\ UNCHANGED <<difficulty, phase, genVars, config, showWinModal, showClearModal,
                   inputMode, call, searchVars>>

\* Variant of handleMouseEnter: entering any earlier cell of the path
\* truncates the path to it, as a click does.
MouseEnterRetractingFar(p) ==
    /\ phase = "play"
    /\ LET pointStr == pointToString(p)
           existingIndex == FindIndex(path, pointStr)
           headIndex == Len(path) - 1
       IN  IF ~isDragging \/ isComplete THEN UNCHANGED <<gameVars, winTimers>>
           ELSE IF ~shouldAllowDrag(inputMode) THEN UNCHANGED <<gameVars, winTimers>>
           ELSE IF existingIndex # 0 - 1
           THEN IF existingIndex < headIndex
                THEN /\ WithinBounds(Slice(path, 0, existingIndex + 1), 0)
                     /\ updatePath(Slice(path, 0, existingIndex + 1), FALSE, Current)
                ELSE UNCHANGED <<gameVars, winTimers>>
           ELSE IF isValidMove(path, p, config)
           THEN /\ WithinBounds(Append(path, p), 0)
                /\ updatePath(Append(path, p), FALSE, Current)
           ELSE UNCHANGED <<gameVars, winTimers>>
    /\ UNCHANGED <<difficulty, phase, genVars, config, showWinModal, showClearModal,
                   inputMode, isDragging, call, searchVars>>

\* Variant of handleMouseEnter: the drag goes on after the puzzle is complete.
MouseEnterWhileComplete(p) ==
    /\ phase = "play"
    /\ LET pointStr == pointToString(p)
           existingIndex == FindIndex(path, pointStr)
           headIndex == Len(path) - 1
       IN  IF ~isDragging THEN UNCHANGED <<gameVars, winTimers>>
           ELSE IF ~shouldAllowDrag(inputMode) THEN UNCHANGED <<gameVars, winTimers>>
           ELSE IF existingIndex # 0 - 1
           THEN IF existingIndex = headIndex - 1
                THEN /\ WithinBounds(Slice(path, 0, existingIndex + 1), 0)
                     /\ updatePath(Slice(path, 0, existingIndex + 1), FALSE, Current)
                ELSE UNCHANGED <<gameVars, winTimers>>
           ELSE IF isValidMove(path, p, config)
           THEN /\ WithinBounds(Append(path, p), 0)
                /\ updatePath(Append(path, p), FALSE, Current)
           ELSE UNCHANGED <<gameVars, winTimers>>
    /\ UNCHANGED <<difficulty, phase, genVars, config, showWinModal, showClearModal,
                   inputMode, isDragging, call, searchVars>>

\* handleMouseEnter(p): the pointer enters cell p.
MouseEnter(p) ==
    /\ phase = "play"
    /\ LET pointStr == pointToString(p)
           existingIndex == FindIndex(path, pointStr)
           headIndex == Len(path) - 1
       IN  IF ~isDragging \/ isComplete THEN UNCHANGED <<gameVars, winTimers>>
           ELSE IF ~shouldAllowDrag(inputMode) THEN UNCHANGED <<gameVars, winTimers>>
           ELSE IF existingIndex # 0 - 1
           THEN IF existingIndex = headIndex - 1
                THEN /\ WithinBounds(Slice(path, 0, existingIndex + 1), 0)
                     /\ updatePath(Slice(path, 0, existingIndex + 1), FALSE, Current)
                ELSE UNCHANGED <<gameVars, winTimers>>
           ELSE IF isValidMove(path, p, config)
           THEN /\ WithinBounds(Append(path, p), 0)
                /\ updatePath(Append(path, p), FALSE, Current)
           ELSE UNCHANGED <<gameVars, winTimers>>
    /\ UNCHANGED <<difficulty, phase, genVars, config, showWinModal, showClearModal,
                   inputMode, isDragging, call, searchVars>>

\* handleInteractEnd: mouse up or touch end anywhere in the window.
InteractEnd ==
    /\ phase = "play"
    /\ isDragging' = (IF isDragging THEN FALSE ELSE isDragging)
    /\ UNCHANGED <<difficulty, phase, genVars, config, gameVars, showWinModal,
                   winTimers, showClearModal, inputMode, call, searchVars>>

\* The Clear button opens the confirmation dialog.
ClearClick ==
    /\ phase = "play"
    /\ showClearModal' = TRUE
    /\ UNCHANGED <<difficulty, phase, genVars, config, gameVars, showWinModal,
                   winTimers, inputMode, isDragging, call, searchVars>>

ClearCancel ==
    /\ phase = "play"
    /\ showClearModal
    /\ showClearModal' = FALSE
    /\ UNCHANGED <<difficulty, phase, genVars, config, gameVars, showWinModal,
                   winTimers, inputMode, isDragging, call, searchVars>>

\* handleClear: the dialog is confirmed.
handleClear ==
    /\ phase = "play"
    /\ showClearModal
    /\ path' = <<StartPoint(config)>>
    /\ history' = <<>>
    /\ isComplete' = FALSE
    /\ errorMessage' = Null
    /\ showClearModal' = FALSE
    /\ UNCHANGED <<difficulty, phase, genVars, config, showWinModal, winTimers,
                   inputMode, isDragging, call, searchVars>>

\* The timeout set by a winning update fires.
WinTimeout ==
    /\ phase = "play"
    /\ winTimers > 0
    /\ winTimers' = winTimers - 1
    /\ showWinModal' = TRUE
    /\ UNCHANGED <<difficulty, phase, genVars, config, gameVars, showClearModal,
                   inputMode, isDragging, call, searchVars>>

\* startNewGame with the tier d: a fresh puzzle, the session reset.
startNewGame(d) ==
    /\ \E newConfig \in Puzzles[d] :
         /\ config' = newConfig
         /\ path' = <<StartPoint(newConfig)>>
    /\ history' = <<>>
    /\ isComplete' = FALSE
    /\ showWinModal' = FALSE
    /\ errorMessage' = Null

\* The New Puzzle button, or Play Again in the win dialog.
NewGame ==
    /\ phase = "play"
    /\ startNewGame(difficulty)
    /\ UNCHANGED <<difficulty, phase, genVars, winTimers, showClearModal, inputMode,
                   isDragging, call, searchVars>>

\* The difficulty select: the effect on startNewGame starts a new game.
SetDifficulty(d) ==
    /\ phase = "play"
    /\ d # difficulty
    /\ difficulty' = d
    /\ startNewGame(d)
    /\ UNCHANGED <<phase, genVars, winTimers, showClearModal, inputMode,
                   isDragging, call, searchVars>>

SetInputMode(m) ==
    /\ phase = "play"
    /\ inputMode' = m
    /\ UNCHANGED <<difficulty, phase, genVars, config, gameVars, showWinModal,
                   winTimers, showClearModal, isDragging, call, searchVars>>

SessionNext ==
    \/ \E d \in {DIRECTIONS[i] : i \in 1..4} : KeyMove(d)
    \/ KeyUndo
    \/ UndoButton
    \/ \E p \in BoardCells : Press(p)
    \/ \E p \in BoardCells : MouseEnter(p)
    \/ InteractEnd
    \/ ClearClick
    \/ ClearCancel
    \/ handleClear
    \/ WinTimeout
    \/ NewGame
    \/ \E d \in Difficulties : SetDifficulty(d)
    \/ \E m \in InputModes : SetInputMode(m)

\* The App as mounted: the mount effect has called startNewGame for 'Easy';
\* the input mode is the one saved in localStorage, 'both' if none.
Init ==
    /\ difficulty = "Easy"
    /\ phase = "play"
    /\ tier = Null
    /\ genPath = <<>>
    /\ indexMap = <<>>
    /\ k = 0
    /\ lastRewire = Did("none", 0 - 1)
    /\ indices = {}
    /\ attempts = 0
    /\ rng = AnyDraw
    /\ \E newConfig \in Puzzles["Easy"] :
         /\ config = newConfig
         /\ path = <<StartPoint(newConfig)>>
    /\ history = <<>>
    /\ isComplete = FALSE
    /\ errorMessage = Null
    /\ showWinModal = FALSE
    /\ winTimers = 0
    /\ showClearModal = FALSE
    /\ inputMode \in InputModes
    /\ isDragging = FALSE
    /\ bfsQueue = <<>>
    /\ bfsVisited = {}
    /\ bfsTarget = Null
    /\ call = NoCall

Next == SessionNext

Spec == Init /\ [][Next]_vars

\* ---------------------------------------------------------------- the pure functions on their own

\* The grids the pure functions are applied on: <<width, height>>.
LogicGrids == {<<2, 2>>, <<3, 1>>, <<1, 3>>}

\* The sequences of n distinct elements of S.
Arrangements(S, n) ==
    {f \in [1..n -> S] : \A i \in 1..n : \A j \in 1..n : f[i] = f[j] => i = j}

\* A checkpoint map with the ranks 1..Len(order): rank i on the cell order[i].
RankMap(order) ==
    [key \in {pointToString(order[i]) : i \in 1..Len(order)} |->
        CHOOSE i \in 1..Len(order) : pointToString(order[i]) = key]

\* Configurations of the data model: ranks 1..N on N distinct cells of a grid.
LogicConfigs ==
    UNION {{[width |-> g[1], height |-> g[2], checkpoints |-> RankMap(order)] :
              order \in UNION {Arrangements(Cells([width |-> g[1], height |-> g[2]]), n) :
                                 n \in 0..MaxCheckpoints}} :
           g \in LogicGrids}

\* Paths of the data model on cfg: distinct cells of the grid, in any order.
LogicPaths(cfg) ==
    UNION {Arrangements(Cells(cfg), n) : n \in 0..(cfg.width * cfg.height)}

\* The cells a move can be attempted to: the grid and one ring around it.
Candidates(cfg) ==
    {Point(cx, cy) : cx \in (0 - 1)..cfg.width, cy \in (0 - 1)..cfg.height}

LogicUnchanged ==
    UNCHANGED <<difficulty, phase, genVars, config, gameVars, uiVars, searchVars>>

CallIsValidMove(nextPoint) ==
    /\ phase = "logic"
    /\ path # <<>>
    /\ call' = [fn |-> "isValidMove", nextPoint |-> nextPoint,
                ret |-> isValidMove(path, nextPoint, config)]
    /\ LogicUnchanged

CallCheckWin ==
    /\ phase = "logic"
    /\ path # <<>>
    /\ call' = [fn |-> "checkWin", ret |-> checkWin(path, config)]
    /\ LogicUnchanged

CallCheckInvalidFullBoard ==
    /\ phase = "logic"
    /\ path # <<>>
    /\ call' = [fn |-> "checkInvalidFullBoard", ret |-> checkInvalidFullBoard(path, config)]
    /\ LogicUnchanged

CallCheckInvalidNotFull ==
    /\ phase = "logic"
    /\ call' = [fn |-> "checkInvalidNotFull", ret |-> checkInvalidNotFull(path, config)]
    /\ LogicUnchanged

\* The three classifiers applied to the same path and configuration.
CallClassifiers ==
    /\ phase = "logic"
    /\ path # <<>>
    /\ call' = [fn |-> "classifiers",
                win |-> checkWin(path, config),
                invalidFull |-> checkInvalidFullBoard(path, config),
                invalidNotFull |-> checkInvalidNotFull(path, config)]
    /\ LogicUnchanged

LogicNext ==
    \/ \E nextPoint \in Candidates(config) : CallIsValidMove(nextPoint)
    \/ CallCheckWin
    \/ CallCheckInvalidFullBoard
    \/ CallCheckInvalidNotFull
    \/ CallClassifiers

LogicInit ==
    /\ difficulty = "Easy"
    /\ phase = "logic"
    /\ tier = Null
    /\ genPath = <<>>
    /\ indexMap = <<>>
    /\ k = 0
    /\ lastRewire = Did("none", 0 - 1)
    /\ indices = {}
    /\ attempts = 0
    /\ rng = AnyDraw
    /\ config \in LogicConfigs
    /\ path \in LogicPaths(config)
    /\ history = <<>>
    /\ isComplete = FALSE
    /\ errorMessage = Null
    /\ showWinModal = FALSE
    /\ winTimers = 0
    /\ showClearModal = FALSE
    /\ inputMode = "both"
    /\ isDragging = FALSE
    /\ bfsQueue = <<>>
    /\ bfsVisited = {}
    /\ bfsTarget = Null
    /\ call = NoCall

SpecLogic == LogicInit /\ [][LogicNext]_vars

\* ---------------------------------------------------------------- the path finders on their own

\* The grids the path finders are applied on: <<width, height>>.
SearchGrids == {<<2, 2>>, <<3, 2>>, <<2, 3>>}

\* Configurations of the data model with a start cell: ranks 1..N, N >= 1.
SearchConfigs ==
    UNION {{[width |-> g[1], height |-> g[2], checkpoints |-> RankMap(order)] :
              order \in UNION {Arrangements(Cells([width |-> g[1], height |-> g[2]]), n) :
                                 n \in 1..MaxSearchCheckpoints}} :
           g \in SearchGrids}

\* One board of three columns and four rows with three checkpoints: the
\* smallest board on which a route around a too-high checkpoint is longer
\* than the route through the checkpoint that must be visited first.
TallBoard ==
    [width |-> 3, height |-> 4,
     checkpoints |-> RankMap(<<Point(2, 1), Point(0, 0), Point(1, 2)>>)]

\* The boards the path finders are applied on.
SearchBoards == SearchConfigs \cup {TallBoard}

\* The player paths one more accepted move away from the paths of `frontier`,
\* and all that follow them.
RECURSIVE PathsFrom(_, _)
PathsFrom(frontier, cfg) ==
    IF frontier = {} THEN {}
    ELSE frontier \cup
         PathsFrom(UNION {{Append(p, c) : c \in {c \in Cells(cfg) : isValidMove(p, c, cfg)}} :
                             p \in frontier}, cfg)

\* The paths a player can have drawn on cfg: from the start cell, every step
\* accepted by isValidMove.
PlayerPaths(cfg) == PathsFrom({<<StartPoint(cfg)>>}, cfg)

\* findShortestPath lines 42-47: the queue holds the start, the path is marked visited.
SearchEnter ==
    /\ bfsQueue' = <<[point |-> At(path, Len(path) - 1), path |-> <<>>]>>
    /\ bfsVisited' = {pointToString(path[i]) : i \in 1..Len(path)}

\* The click handler tries the straight line from the head to the target;
\* findShortestPath is then entered with the same arguments.
CallFindStraightLinePath ==
    /\ phase = "straight"
    /\ call' = [fn |-> "findStraightLinePath",
                ret |-> findStraightLinePath(At(path, Len(path) - 1), bfsTarget, path, config)]
    /\ SearchEnter
    /\ phase' = "search"
    /\ UNCHANGED <<difficulty, genVars, config, gameVars, uiVars, bfsTarget>>

\* One iteration of `while (queue.length > 0)` that dequeues the target: return path.
SearchFound ==
    /\ phase = "search"
    /\ Len(bfsQueue) > 0
    /\ pointToString(Head(bfsQueue).point) = pointToString(bfsTarget)
    /\ call' = [fn |-> "findShortestPath", ret |-> Some(Head(bfsQueue).path)]
    /\ phase' = "searched"
    /\ UNCHANGED <<difficulty, genVars, config, gameVars, uiVars, searchVars>>

\* SearchExpand building the test path of line 73 in place: the dequeued
\* segment is pushed onto currentPath instead of onto a copy of it.
SearchExpandInPlace ==
    /\ phase = "search"
    /\ Len(bfsQueue) > 0
    /\ pointToString(Head(bfsQueue).point) # pointToString(bfsTarget)
    /\ LET fullTestPath == path \o Head(bfsQueue).path
           r == VisitNeighbors([point |-> Head(bfsQueue).point, path |-> <<>>], 1,
                               Tail(bfsQueue), bfsVisited, fullTestPath, config)
       IN  /\ path' = fullTestPath
           /\ bfsQueue' = r.queue
           /\ bfsVisited' = r.visited
    /\ UNCHANGED <<difficulty, phase, genVars, config, history, isComplete, errorMessage,
                   uiVars, bfsTarget, call>>

\* One iteration of `while (queue.length > 0)` that dequeues another cell and
\* enqueues its accepted, unvisited neighbours.
SearchExpand ==
    /\ phase = "search"
    /\ Len(bfsQueue) > 0
    /\ pointToString(Head(bfsQueue).point) # pointToString(bfsTarget)
    /\ LET r == VisitNeighbors(Head(bfsQueue), 1, Tail(bfsQueue), bfsVisited, path, config)
       IN  /\ bfsQueue' = r.queue
           /\ bfsVisited' = r.visited
    /\ UNCHANGED <<difficulty, phase, genVars, config, gameVars, uiVars, bfsTarget, call>>

\* The queue is empty: return null.
SearchExhausted ==
    /\ phase = "search"
    /\ Len(bfsQueue) = 0
    /\ call' = [fn |-> "findShortestPath", ret |-> None]
    /\ phase' = "searched"
    /\ UNCHANGED <<difficulty, genVars, config, gameVars, uiVars, searchVars>>

SearchNext ==
    \/ CallFindStraightLinePath
    \/ SearchFound
    \/ SearchExpand
    \/ SearchExhausted

\* A click on an unvisited cell of a board with any player path on it.
SearchInit ==
    /\ difficulty = "Easy"
    /\ phase = "straight"
    /\ tier = Null
    /\ genPath = <<>>
    /\ indexMap = <<>>
    /\ k = 0
    /\ lastRewire = Did("none", 0 - 1)
    /\ indices = {}
    /\ attempts = 0
    /\ rng = AnyDraw
    /\ config \in SearchBoards
    /\ path \in PlayerPaths(config)
    /\ bfsTarget \in Cells(config) \ {path[i] : i \in 1..Len(path)}
    /\ history = <<>>
    /\ isComplete = FALSE
    /\ errorMessage = Null
    /\ showWinModal = FALSE
    /\ winTimers = 0
    /\ showClearModal = FALSE
    /\ inputMode = "both"
    /\ isDragging = FALSE
    /\ bfsQueue = <<>>
    /\ bfsVisited = {}
    /\ call = NoCall

SpecSearch == SearchInit /\ [][SearchNext]_vars

\* The search runs on: no iteration of the loop is postponed for ever.
FairSpecSearch == SpecSearch /\ WF_vars(SearchNext)

\* ---------------------------------------------------------------- formatTime on its own

\* formatTime is called with the seconds the timer has counted; the call
\* record holds the argument, and the result once the call has returned.
CallFormatTime ==
    /\ phase = "time"
    /\ ~call.returned
    /\ call' = [call EXCEPT !.returned = TRUE, !.ret = formatTime(call.seconds)]
    /\ UNCHANGED <<difficulty, phase, genVars, config, gameVars, uiVars, searchVars>>

TimeNext == CallFormatTime

\* The elapsed time is any whole number of seconds up to MaxSeconds.
TimeInit ==
    /\ difficulty = "Easy"
    /\ phase = "time"
    /\ tier = Null
    /\ genPath = <<>>
    /\ indexMap = <<>>
    /\ k = 0
    /\ lastRewire = Did("none", 0 - 1)
    /\ indices = {}
    /\ attempts = 0
    /\ rng = AnyDraw
    /\ config = Null
    /\ path = <<>>
    /\ history = <<>>
    /\ isComplete = FALSE
    /\ errorMessage = Null
    /\ showWinModal = FALSE
    /\ winTimers = 0
    /\ showClearModal = FALSE
    /\ inputMode = "both"
    /\ isDragging = FALSE
    /\ bfsQueue = <<>>
    /\ bfsVisited = {}
    /\ bfsTarget = Null
    /\ call \in {[fn |-> "formatTime", seconds |-> t, returned |-> FALSE, ret |-> <<>>] :
                   t \in 0..MaxSeconds}

SpecTime == TimeInit /\ [][TimeNext]_vars

\* ---------------------------------------------------------------- properties of the pure functions

\* The highest checkpoint rank on the cells of p, 0 when p meets no checkpoint.
MaxRankOn(p, cfg) ==
    LET ranks == {cfg.checkpoints[key] :
                     key \in {pointToString(p[i]) : i \in 1..Len(p)} \cap DOMAIN cfg.checkpoints}
    IN  IF ranks = {} THEN 0 ELSE CHOOSE r \in ranks : \A q \in ranks : q <= r

\* The highest rank in the checkpoint map, 0 when the map is empty.
MaxRankPresent(cfg) ==
    LET ranks == {cfg.checkpoints[key] : key \in DOMAIN cfg.checkpoints}
    IN  IF ranks = {} THEN 0 ELSE CHOOSE r \in ranks : \A q \in ranks : q <= r

\* The last cell of p carries the highest rank of the checkpoint map.
EndsOnMaxRank(p, cfg) ==
    /\ pointToString(p[Len(p)]) \in DOMAIN cfg.checkpoints
    /\ cfg.checkpoints[pointToString(p[Len(p)])] = MaxRankPresent(cfg)

\* C4: isValidMove returns true exactly when the candidate is at Manhattan
\* distance 1 from the last cell of the path, lies inside the grid, is not on
\* the path and, if it carries a rank, that rank is one more than the highest
\* rank on the path (0 if none).
C4_IsValidMoveCharacterised ==
    call.fn = "isValidMove" =>
        LET last == path[Len(path)]
            c == call.nextPoint
            key == pointToString(c)
        IN  call.ret =
              (/\ Abs(last.x - c.x) + Abs(last.y - c.y) = 1
               /\ c.x \in 0..(config.width - 1) /\ c.y \in 0..(config.height - 1)
               /\ \A i \in 1..Len(path) : path[i] # c
               /\ key \in DOMAIN config.checkpoints =>
                     config.checkpoints[key] = MaxRankOn(path, config) + 1)

\* isValidMove accepted the entry of a checkpoint after another one was passed.
C4_Witness ==
    /\ call.fn = "isValidMove"
    /\ call.ret
    /\ pointToString(call.nextPoint) \in DOMAIN config.checkpoints
    /\ config.checkpoints[pointToString(call.nextPoint)] = 2
    /\ Len(path) >= 2

\* C5: checkWin returns true exactly when the path has width*height cells and
\* its last cell holds the highest rank of the checkpoint map.
C5_CheckWinCharacterised ==
    call.fn = "checkWin" =>
        call.ret = (/\ Len(path) = config.width * config.height
                    /\ EndsOnMaxRank(path, config))

\* checkWin returned true on a full 2x2 board with three checkpoints.
C5_Witness ==
    /\ call.fn = "checkWin"
    /\ call.ret
    /\ Len(path) = 4
    /\ Cardinality(DOMAIN config.checkpoints) = 3

\* C6: checkInvalidFullBoard returns true exactly when the path has
\* width*height cells and its last cell carries no checkpoint or a rank that
\* is not the highest.
C6_CheckInvalidFullBoardCharacterised ==
    call.fn = "checkInvalidFullBoard" =>
        call.ret = (/\ Len(path) = config.width * config.height
                    /\ \/ pointToString(path[Len(path)]) \notin DOMAIN config.checkpoints
                       \/ config.checkpoints[pointToString(path[Len(path)])]
                            # MaxRankPresent(config))

\* checkInvalidFullBoard returned true on a full board ending on a lower rank.
C6_Witness ==
    /\ call.fn = "checkInvalidFullBoard"
    /\ call.ret
    /\ pointToString(path[Len(path)]) \in DOMAIN config.checkpoints
    /\ Cardinality(DOMAIN config.checkpoints) >= 2

\* C7: checkInvalidNotFull returns true exactly when the path has fewer than
\* width*height cells and the highest rank on the path equals the number of
\* checkpoints of the configuration.
C7_CheckInvalidNotFullCharacterised ==
    call.fn = "checkInvalidNotFull" =>
        call.ret = (/\ Len(path) < config.width * config.height
                    /\ MaxRankOn(path, config) = Cardinality(DOMAIN config.checkpoints))

\* checkInvalidNotFull returned true on a path that passed the last of three
\* checkpoints and then went on, with a cell still free.
C7_Witness ==
    /\ call.fn = "checkInvalidNotFull"
    /\ call.ret
    /\ Cardinality(DOMAIN config.checkpoints) = 3
    /\ pointToString(path[Len(path)]) \notin DOMAIN config.checkpoints

\* C8: on a non-empty path at most one of checkWin, checkInvalidFullBoard and
\* checkInvalidNotFull returns true.
C8_ClassifiersExclusive ==
    call.fn = "classifiers" =>
        /\ ~(call.win /\ call.invalidFull)
        /\ ~(call.win /\ call.invalidNotFull)
        /\ ~(call.invalidFull /\ call.invalidNotFull)

\* The classifiers ran on a full board that ends on the last checkpoint with
\* every checkpoint on it: checkWin alone returned true.
C8_Witness ==
    /\ call.fn = "classifiers"
    /\ call.win
    /\ Cardinality(DOMAIN config.checkpoints) >= 2
    /\ MaxRankOn(path, config) = Cardinality(DOMAIN config.checkpoints)

\* ---------------------------------------------------------------- session properties

\* C9: whenever the session is marked complete, the player path fills every
\* grid cell exactly once, passes the checkpoints in the order 1, 2, ..., N
\* and ends on checkpoint N.
C9_CompleteMeansSolved ==
    (phase = "play" /\ isComplete) =>
        LET n == Cardinality(DOMAIN config.checkpoints)
            last == pointToString(path[Len(path)])
        IN  /\ Len(path) = config.width * config.height
            /\ \A c \in Cells(config) : Cardinality({i \in 1..Len(path) : path[i] = c}) = 1
            /\ RanksAlong(path, config.checkpoints) = [i \in 1..n |-> i]
            /\ last \in DOMAIN config.checkpoints /\ config.checkpoints[last] = n

\* A six-cell board has been completed.
C9_Witness ==
    /\ phase = "play"
    /\ isComplete
    /\ Len(path) = 6

\* C10: the player path is never empty, starts on the rank-1 checkpoint, holds
\* no cell twice, and its consecutive cells are 4-adjacent cells of the grid.
C10_PathWellFormed ==
    phase = "play" =>
        /\ path # <<>>
        /\ pointToString(path[1]) \in DOMAIN config.checkpoints
        /\ config.checkpoints[pointToString(path[1])] = 1
        /\ \A i \in 1..Len(path) : \A j \in 1..Len(path) : path[i] = path[j] => i = j
        /\ \A i \in 1..Len(path) : path[i] \in Cells(config)
        /\ \A i \in 1..(Len(path) - 1) :
             Abs(path[i].x - path[i + 1].x) + Abs(path[i].y - path[i + 1].y) = 1

\* The path was cut back to a shorter one after it had grown: the last history
\* entry is longer than the path, which still has several cells.
C10_Witness ==
    /\ phase = "play"
    /\ history # <<>>
    /\ Len(history[Len(history)]) > Len(path)
    /\ Len(path) >= 3

\* ---------------------------------------------------------------- properties of the path finders

\* Some sequence of at most n cells leads from the head of p to target, every
\* step accepted by isValidMove against the path extended so far.
RECURSIVE ReachesWithin(_, _, _, _)
ReachesWithin(p, t, cfg, n) ==
    \/ p[Len(p)] = t
    \/ /\ n > 0
       /\ \E c \in Cells(cfg) : isValidMove(p, c, cfg) /\ ReachesWithin(Append(p, c), t, cfg, n - 1)

\* Some such sequence exists, of any length.
Reaches(p, t, cfg) == ReachesWithin(p, t, cfg, cfg.width * cfg.height)

\* The loop taken one iteration at a time returns what findShortestPath returns.
SearchAgrees ==
    phase = "searched" =>
        call.ret = findShortestPath(path[Len(path)], bfsTarget, path, config)

\* C11: when some sequence of accepted moves leads from the head to the
\* unvisited target, findShortestPath does not return none.
C11_SearchFindsExistingRoute ==
    (phase = "searched" /\ Reaches(path, bfsTarget, config)) => call.ret.found

\* C12: when findShortestPath returns a sequence, no shorter sequence of
\* accepted moves leads from the head to the target.
C12_SearchReturnsShortest ==
    (phase = "searched" /\ call.ret.found) =>
        ~ReachesWithin(path, bfsTarget, config, Len(call.ret.cells) - 1)

LineCells(start, t) ==
    [i \in 1..(Abs(t.x - start.x) + Abs(t.y - start.y)) |->
        Point(start.x + i * Sign(t.x - start.x), start.y + i * Sign(t.y - start.y))]

\* C14: findStraightLinePath returns none when start and target share neither
\* x nor y; otherwise it returns the cells after start up to and including
\* the target, in order, exactly when each of them in turn is accepted by
\* isValidMove against the path extended by the cells before it, and none
\* when one of them is rejected.
C14_StraightLineCharacterised ==
    (phase = "search" /\ call.fn = "findStraightLinePath") =>
        LET start == path[Len(path)]
            line == LineCells(start, bfsTarget)
        IN  IF start.x # bfsTarget.x /\ start.y # bfsTarget.y
            THEN call.ret = None
            ELSE IF \A i \in 1..Len(line) :
                       isValidMove(path \o SubSeq(line, 1, i - 1), line[i], config)
                 THEN call.ret = Some(line)
                 ELSE call.ret = None

\* findStraightLinePath returned two cells along a row or column.
C14_Witness ==
    /\ phase = "search"
    /\ call.fn = "findStraightLinePath"
    /\ call.ret.found
    /\ Len(call.ret.cells) = 2

\* The items an iteration of the search loop has put on the queue.
Enqueued == SubSeq(bfsQueue', Len(bfsQueue), Len(bfsQueue'))

\* An iteration only enqueues cells that were not marked visited, each once,
\* and marks them; no mark is ever removed.
EnqueuesFresh ==
    /\ bfsQueue' = Tail(bfsQueue) \o Enqueued
    /\ \A i \in 1..Len(Enqueued) : pointToString(Enqueued[i].point) \notin bfsVisited
    /\ \A i \in 1..Len(Enqueued) : \A j \in 1..Len(Enqueued) :
         Enqueued[i].point = Enqueued[j].point => i = j
    /\ bfsVisited' = bfsVisited \cup {pointToString(Enqueued[i].point) : i \in 1..Len(Enqueued)}

\* C15: findShortestPath terminates: every cell is enqueued at most once, and
\* the search returns (the target is dequeued or the queue runs empty).
C15_SearchTerminates ==
    /\ [][(phase = "search" /\ phase' = "search") => EnqueuesFresh]_vars
    /\ <>(phase = "searched")

\* The search has returned none after it had visited every cell but the target.
C15_Witness ==
    /\ phase = "searched"
    /\ ~call.ret.found
    /\ Cardinality(bfsVisited) = config.width * config.height - 1
    /\ Len(path) = 1

\* ---------------------------------------------------------------- properties of the generator's loops

\* The path indices of the checkpoint cells of a generated puzzle.
ChosenOf(cfg) ==
    {i \in 0..(Len(cfg.solutionPath) - 1) :
        pointToString(At(cfg.solutionPath, i)) \in DOMAIN cfg.checkpoints}

\* The iteration count of the difficulty.
IterationCount ==
    CASE difficulty = "Easy" -> 300
      [] difficulty = "Medium" -> 800
      [] difficulty = "Hard" -> 2000

\* The rewiring loop counts every iteration and is left after 300, 800 or
\* 2000 of them.
RewireLoopCounts ==
    /\ (phase = "rewire" /\ phase' = "rewire") => k' = k + 1
    /\ (phase = "rewire" /\ phase' = "place") => k = IterationCount

\* A bound on the steps generatePuzzle has left: the iterations to go, the
\* 2000 attempts, the exits of the two loops.
Remaining ==
    CASE phase = "rewire" -> (IterationCount - k) + 2002
      [] phase = "place" -> (2000 - attempts) + 1
      [] OTHER -> 0

\* The placement loop counts every attempt.
PlaceLoopCounts ==
    (phase = "place" /\ phase' = "place") => attempts' = attempts + 1

\* What the fallback adds are distinct remaining interior indices, as many as
\* are missing or as there are.
FallbackTakesOnce ==
    (phase = "place" /\ phase' = "play") =>
        LET available == Range(AvailableFrom(1, Len(genPath), indices))
            chosen == ChosenOf(config')
        IN  /\ indices \subseteq chosen
            /\ (chosen \ indices) \subseteq available
            /\ Cardinality(chosen) =
                 Min(tier.numCheckpoints, Cardinality(indices) + Cardinality(available))

\* C16: generatePuzzle terminates, whatever the draws: the rewiring loop
\* performs exactly the iteration count of the tier (300, 800 or 2000), the
\* randomized phase makes at most 2000 attempts, the fallback takes each
\* remaining interior index at most once, and every step lowers the bound
\* Remaining on the steps left, which never falls below 0.
C16_GeneratorTerminates ==
    [][/\ RewireLoopCounts
       /\ PlaceLoopCounts
       /\ attempts' <= 2000
       /\ FallbackTakesOnce
       /\ Remaining' < Remaining
       /\ Remaining' >= 0]_vars

\* All 2000 iterations of the Hard tier done, all 2000 attempts used up and
\* checkpoints still missing: the fallback is about to run.
C16_Witness ==
    /\ phase = "place"
    /\ k = 2000
    /\ attempts = 2000
    /\ Cardinality(indices) < tier.numCheckpoints

\* ---------------------------------------------------------------- properties of the placement

\* The minimum gap of the difficulty.
MinGapOf(d) ==
    CASE d = "Easy" -> 3
      [] d = "Medium" -> 3
      [] d = "Hard" -> 4

\* Any two distinct indices of idx are at least gap apart.
Spaced(idx, gap) == \A a \in idx : \A b \in idx : a # b => Abs(a - b) >= gap

\* C17 as stated: in every returned puzzle any two distinct checkpoints are
\* at least minGap positions apart along the solution path (3 for Easy and
\* Medium, 4 for Hard), index 0 and the last index included.
C17_CheckpointsKeepGap ==
    phase = "play" => Spaced(ChosenOf(config), MinGapOf(difficulty))

\* C17 amended: the indices chosen by the randomized phase, index 0 and the
\* last index included, are at least minGap apart, and so are the checkpoints
\* of a returned puzzle whenever the randomized phase placed them all; the
\* fallback adds indices without regard to the gap.
C17_GapUnlessFallback ==
    /\ [](phase = "place" => Spaced(indices, MinGapOf(difficulty)))
    /\ [][(phase = "place" /\ phase' = "play"
           /\ Cardinality(indices) >= tier.numCheckpoints) =>
              /\ ChosenOf(config') = indices
              /\ Spaced(ChosenOf(config'), MinGapOf(difficulty))]_vars

\* A Hard puzzle returned with all 20 checkpoints at least 4 apart.
C17_Witness ==
    /\ phase = "play"
    /\ difficulty = "Hard"
    /\ Cardinality(ChosenOf(config)) = 20
    /\ Spaced(ChosenOf(config), 4)

\* ---------------------------------------------------------------- properties of the returned puzzle

\* C18: generatePuzzle returns the dimensions of the tier (Easy 6x6, Medium
\* 8x8, Hard 10x10), a solution path of 36, 64 or 100 cells, and a checkpoint
\* map of exactly 8, 14 or 20 distinct cells.
C18_TierDimensionsAndCount ==
    phase = "play" =>
        LET side == CASE difficulty = "Easy" -> 6
                      [] difficulty = "Medium" -> 8
                      [] difficulty = "Hard" -> 10
            count == CASE difficulty = "Easy" -> 8
                       [] difficulty = "Medium" -> 14
                       [] difficulty = "Hard" -> 20
        IN  /\ config.width = side
            /\ config.height = side
            /\ Len(config.solutionPath) = side * side
            /\ Cardinality(DOMAIN config.checkpoints) = count
            /\ Cardinality(ChosenOf(config)) = count
            /\ DOMAIN config.checkpoints \subseteq
                 {pointToString(c) : c \in Cells(config)}

\* A Hard puzzle returned after the fallback had to add a checkpoint: two of
\* its checkpoints are closer than the gap of the tier.
C18_Witness ==
    /\ phase = "play"
    /\ difficulty = "Hard"
    /\ config.width = 10
    /\ Cardinality(DOMAIN config.checkpoints) = 20
    /\ ~Spaced(ChosenOf(config), 4)


\* ---------------------------------------------------------------------------
\* properties of the session status
\* ---------------------------------------------------------------------------

\* The status the App shows for the current path: the completion flag and the
\* error banner agree with the three classifiers of the logic module.
StatusMatchesPath ==
    /\ isComplete <=> checkWin(path, config)
    /\ errorMessage = MustEndOnFinal <=> checkInvalidFullBoard(path, config)
    /\ errorMessage = AllSpotsFilled <=> checkInvalidNotFull(path, config)
    /\ (/\ ~checkInvalidFullBoard(path, config)
        /\ ~checkInvalidNotFull(path, config)) => errorMessage = Null

\* A step that changes the player's path, its undo history or the puzzle.
PathMutation == path' # path \/ config' # config \/ history' # history

\* C19: after every path mutation of a session (extension, truncation, undo,
\* clear, new puzzle) the status equals the classifiers' verdict on the
\* resulting path: isComplete iff checkWin, 'You must end on the final
\* number.' iff checkInvalidFullBoard, 'All spots must be filled.' iff
\* checkInvalidNotFull, and no message otherwise.  The mounted session starts
\* with a matching status as well.
C19_StatusFollowsPath ==
    /\ (phase = "play" => StatusMatchesPath)
    /\ [][(phase' = "play" /\ PathMutation) => StatusMatchesPath']_vars

\* A mutation has left a path on which every checkpoint is visited and the
\* board is not full, with nothing left to undo: the banner names the verdict.
C19_Witness ==
    /\ phase = "play"
    /\ Len(history) = 0
    /\ Len(path) > 1
    /\ checkInvalidNotFull(path, config)
    /\ errorMessage = AllSpotsFilled
    /\ ~isComplete


\* The Invalid-Saturated-Incomplete state: every checkpoint is visited, the
\* board is not full, and the banner says so.
InvalidSaturatedIncomplete ==
    /\ phase = "play"
    /\ checkInvalidNotFull(path, config)
    /\ errorMessage = AllSpotsFilled

\* The cell one step from the head in direction d.
NextOf(d) ==
    LET head == At(path, Len(path) - 1) IN Point(head.x + d.x, head.y + d.y)

\* C20: in the Invalid-Saturated-Incomplete state the session is not complete,
\* and a further move that isValidMove accepts still extends the path by the
\* cell moved to, whether made by an arrow key (the clear dialog closed), by
\* dragging into the cell, or by clicking it.
C20_MessageDoesNotBlock ==
    [][InvalidSaturatedIncomplete =>
         /\ ~isComplete
         /\ \A d \in {DIRECTIONS[i] : i \in 1..4} :
              (/\ isValidMove(path, NextOf(d), config)
               /\ ~showClearModal
               /\ KeyMove(d)) => path' = Append(path, NextOf(d))
         /\ \A p \in BoardCells :
              (/\ isValidMove(path, p, config)
               /\ isDragging /\ shouldAllowDrag(inputMode)
               /\ MouseEnter(p)) => path' = Append(path, p)
         /\ \A p \in BoardCells :
              (/\ isValidMove(path, p, config)
               /\ shouldAllowClick(inputMode)
               /\ Press(p)) => path' = Append(path, p)]_vars

\* A move was made from the Invalid-Saturated-Incomplete state: the path
\* without its head already had every checkpoint, and the game goes on.
C20_Witness ==
    /\ InvalidSaturatedIncomplete
    /\ Len(path) >= 3
    /\ checkInvalidNotFull(Slice(path, 0, Len(path) - 1), config)
    /\ isValidMove(Slice(path, 0, Len(path) - 1), At(path, Len(path) - 1), config)
    /\ ~isComplete


\* ---------------------------------------------------------------------------
\* properties of the input modes
\* ---------------------------------------------------------------------------

\* The head of the player path.
HeadCell == At(path, Len(path) - 1)

\* C21: input-mode gating.  In mode 'drag' a pointer press on a cell other
\* than the head changes neither the path nor the undo history.  In mode
\* 'click' a press on the head never starts a drag (and pushes no snapshot)
\* and a pointer-enter never changes the path, also when a drag was started
\* before the mode was switched.  In mode 'both' a press on the head of an
\* unfinished game starts a drag, a press on an earlier cell of the path
\* truncates the path to it, and entering an acceptable cell while dragging
\* extends the path.
C21_InputModeGating ==
    [][/\ inputMode = "drag" =>
            \/ (path' = path /\ history' = history)
            \/ \A p \in BoardCells : p # HeadCell => ~Press(p)
       /\ inputMode = "click" =>
            \/ (isDragging' = isDragging /\ history' = history /\ path' = path)
            \/ ~Press(HeadCell)
       /\ inputMode = "click" =>
            \/ path' = path
            \/ \A p \in BoardCells : ~MouseEnter(p)
       /\ (inputMode = "both" /\ ~isComplete) =>
            \/ isDragging'
            \/ ~Press(HeadCell)
       /\ (inputMode = "both" /\ ~isComplete) =>
            \A p \in BoardCells :
                (p # HeadCell /\ FindIndex(path, pointToString(p)) # 0 - 1) =>
                    \/ path' = Slice(path, 0, FindIndex(path, pointToString(p)) + 1)
                    \/ ~Press(p)
       /\ (inputMode = "both" /\ ~isComplete /\ isDragging) =>
            \A p \in BoardCells :
                isValidMove(path, p, config) =>
                    \/ path' = Append(path, p)
                    \/ ~MouseEnter(p)]_vars

\* The mode was switched to 'click' while a drag was under way, on a path
\* that the drag has already extended.
C21_Witness ==
    /\ phase = "play"
    /\ inputMode = "click"
    /\ isDragging
    /\ Len(path) > 1
    /\ ~isComplete


\* ---------------------------------------------------------------------------
\* properties of clear and new puzzle
\* ---------------------------------------------------------------------------

\* The session as a fresh attempt at the puzzle cfg: the path is the rank-1
\* checkpoint cell alone, nothing to undo, not complete, no banner.
FreshAttempt(p, h, complete, message, cfg) ==
    /\ Len(p) = 1
    /\ pointToString(p[1]) \in DOMAIN cfg.checkpoints
    /\ cfg.checkpoints[pointToString(p[1])] = 1
    /\ h = <<>>
    /\ ~complete
    /\ message = Null

\* C22: after 'clear' (the confirmed dialog) and after 'new puzzle' (the New
\* Puzzle button, Play Again, a change of difficulty, and the mount) the path
\* is the singleton of the rank-1 checkpoint cell of the current
\* configuration, the undo history is empty, the session is not complete and
\* no error message is shown.
C22_ClearAndNewPuzzleReset ==
    /\ (phase = "play" => FreshAttempt(path, history, isComplete, errorMessage, config))
    /\ [][(handleClear \/ NewGame \/ \E d \in Difficulties : SetDifficulty(d))
            => FreshAttempt(path', history', isComplete', errorMessage', config')]_vars

\* A new puzzle of another tier has been started after a win of the previous
\* one whose dialog is still to come, and nothing has been played on it.
C22_Witness ==
    /\ phase = "play"
    /\ difficulty # "Easy"
    /\ winTimers > 0
    /\ FreshAttempt(path, history, isComplete, errorMessage, config)


\* ---------------------------------------------------------------------------
\* properties of the arguments of the pure functions
\* ---------------------------------------------------------------------------

\* C23: findStraightLinePath and findShortestPath, and isValidMove as both
\* call it on every cell they test, leave their inputs unchanged: over the
\* call and over every iteration of the search loop, the currentPath
\* sequence, the configuration (dimensions and checkpoint map) and the target
\* are the same as before.
C23_FindersLeaveInputs ==
    [][(phase = "straight" \/ phase = "search") =>
         (path' = path /\ config' = config /\ bfsTarget' = bfsTarget)]_vars

\* findShortestPath has returned a route of three cells from a player path of
\* three cells, after several iterations that each tested neighbours.
C23_Witness ==
    /\ phase = "searched"
    /\ call.fn = "findShortestPath"
    /\ call.ret.found
    /\ Len(call.ret.cells) = 3
    /\ Len(path) = 3


\* ---------------------------------------------------------------------------
\* properties of formatTime
\* ---------------------------------------------------------------------------

\* The two decimal digits of a number below 100, as characters.
TwoDigits(n) == <<DigitChar(n \div 10), DigitChar(n % 10)>>

\* C24: for every whole number of seconds s with 0 <= s < 6000, formatTime(s)
\* is the two-digit zero-padded floor(s/60), a colon, and the two-digit
\* zero-padded s mod 60; 0 gives 00:00, 59 gives 00:59, 60 gives 01:00,
\* 65 gives 01:05 and 600 gives 10:00.
C24_FormatTimeTwoDigits ==
    (phase = "time" /\ call.returned /\ call.seconds < 6000) =>
        /\ call.ret = TwoDigits(call.seconds \div 60) \o <<":">> \o TwoDigits(call.seconds % 60)
        /\ call.seconds = 0 => call.ret = <<"0", "0", ":", "0", "0">>
        /\ call.seconds = 59 => call.ret = <<"0", "0", ":", "5", "9">>
        /\ call.seconds = 60 => call.ret = <<"0", "1", ":", "0", "0">>
        /\ call.seconds = 65 => call.ret = <<"0", "1", ":", "0", "5">>
        /\ call.seconds = 600 => call.ret = <<"1", "0", ":", "0", "0">>

\* formatTime has returned 99:59 for the last second of the range.
C24_Witness ==
    /\ phase = "time"
    /\ call.returned
    /\ call.seconds = 5999
    /\ call.ret = <<"9", "9", ":", "5", "9">>


\* ---------------------------------------------------------------------------
\* properties of the rewiring
\* ---------------------------------------------------------------------------

\* The reverse index agrees with the path p: it maps the key of the cell at
\* every position i to i.
IndexAgrees(m, p) ==
    /\ \A i \in 0..(Len(p) - 1) :
         /\ MapHas(m, pointToString(At(p, i)))
         /\ MapGet(m, pointToString(At(p, i))) = i
    /\ DOMAIN m = {pointToString(At(p, i)) : i \in 0..(Len(p) - 1)}

\* C25: in the rewiring loop, before the first and after every iteration
\* (tail rewire, head rewire or skipped iteration) the reverse index agrees
\* with the path: for every position i, indexMap maps the cell path[i] to i.
C25_IndexMapInSync ==
    phase = "rewire" => IndexAgrees(indexMap, genPath)

\* Several iterations have run and the last was a head rewire that reversed
\* at least two cells.
C25_Witness ==
    /\ phase = "rewire"
    /\ k >= 3
    /\ lastRewire.kind = "head"
    /\ lastRewire.targetIndex >= 2
    /\ genPath # generateSerpentinePath(tier.width, tier.height)


\* The effect of a tail rewire at target index t on the path p, giving q.
TailRewiredAt(p, q, t) ==
    LET last == Len(p) - 1
    IN  /\ Len(q) = Len(p)
        /\ isAdjacent(At(p, t), At(p, last))
        /\ \A i \in 0..t : At(q, i) = At(p, i)
        /\ \A i \in (t + 1)..last : At(q, i) = At(p, last - (i - (t + 1)))
        /\ At(q, last) = At(p, t + 1)

\* The effect of a head rewire at target index t on the path p, giving q.
HeadRewiredAt(p, q, t) ==
    LET last == Len(p) - 1
    IN  /\ Len(q) = Len(p)
        /\ isAdjacent(At(p, t), At(p, 0))
        /\ \A i \in t..last : At(q, i) = At(p, i)
        /\ \A i \in 0..(t - 1) : At(q, i) = At(p, (t - 1) - i)
        /\ At(q, 0) = At(p, t - 1)

\* C26: a tail rewire whose target sits at path index t leaves positions 0..t
\* unchanged, reverses positions t+1..last, and makes the new tail the cell
\* that was at index t+1; a head rewire whose target sits at index t leaves
\* positions t..last unchanged, reverses positions 0..t-1, and makes the new
\* head the cell that was at index t-1.  A skipped iteration leaves the path
\* as it was.
C26_RewireReversesOneSide ==
    [][(phase = "rewire" /\ k' = k + 1) =>
         /\ lastRewire'.kind \in {"tail", "head", "skip"}
         /\ lastRewire'.kind = "tail" =>
              (/\ lastRewire'.targetIndex \in 0..(Len(genPath) - 3)
               /\ TailRewiredAt(genPath, genPath', lastRewire'.targetIndex))
         /\ lastRewire'.kind = "head" =>
              (/\ lastRewire'.targetIndex \in 2..(Len(genPath) - 1)
               /\ HeadRewiredAt(genPath, genPath', lastRewire'.targetIndex))
         /\ lastRewire'.kind = "skip" => genPath' = genPath]_vars

\* A tail rewire has just reversed at least three cells of a path that
\* earlier iterations had already changed.
C26_Witness ==
    /\ phase = "rewire"
    /\ k >= 2
    /\ lastRewire.kind = "tail"
    /\ lastRewire.targetIndex <= Len(genPath) - 4
    /\ lastRewire.targetIndex >= 1


\* ---------------------------------------------------------------------------
\* properties of the randomized placement
\* ---------------------------------------------------------------------------

\* The interior indices the placement loop would still accept.
FreeCandidates ==
    {c \in 1..(Len(genPath) - 2) :
       c \notin indices /\ isValidCandidate(c, indices, tier.minGap)}

\* C27: on the Easy and Medium tiers (8 indices on 36 cells, 14 on 64 cells,
\* gap 3) the randomized placement cannot get stuck short of its target: in
\* every state of the loop with fewer than N chosen indices some interior
\* index is unchosen and at distance >= minGap from every chosen index.  The
\* loop is therefore left with fewer than N indices only with its attempts
\* used up.
C27_PlacementNeverStuck ==
    (phase = "place" /\ Cardinality(indices) < tier.numCheckpoints) =>
        /\ tier.numCheckpoints = (IF difficulty = "Easy" THEN 8 ELSE 14)
        /\ Len(genPath) = (IF difficulty = "Easy" THEN 36 ELSE 64)
        /\ tier.minGap = 3
        /\ FreeCandidates # {}

\* Medium with 13 of its 14 indices chosen as tightly as the gap allows:
\* three candidates are left, all in one stretch.
C27_Witness ==
    /\ phase = "place"
    /\ difficulty = "Medium"
    /\ Cardinality(indices) = 13
    /\ Cardinality(FreeCandidates) = 3


\* ---------------------------------------------------------------------------
\* properties of rejected moves
\* ---------------------------------------------------------------------------

\* Whether the cell p is on the player path.
OnPath(p) == FindIndex(path, pointToString(p)) # 0 - 1

\* A click on p finds no route: both path finders return none.
NoRouteTo(p) ==
    /\ ~findStraightLinePath(HeadCell, p, path, config).found
    /\ ~findShortestPath(HeadCell, p, path, config).found

\* A click on an unvisited cell no route is found to leaves the path, the
\* history, isComplete and the error message as they were: no step that
\* changes one of them is such a click.
RejectedClick ==
    \/ UNCHANGED gameVars
    \/ \A p \in BoardCells : (~OnPath(p) /\ Press(p)) => ~NoRouteTo(p)

\* A keyboard step to a cell isValidMove rejects leaves the path, the history,
\* isComplete and the error message as they were: a keyboard step that
\* changes one of them went to a cell isValidMove accepts.
RejectedKey ==
    \/ UNCHANGED gameVars
    \/ \A d \in {DIRECTIONS[i] : i \in 1..4} :
         KeyMove(d) => isValidMove(path, NextOf(d), config)

\* C28 as stated: a keyboard step or a drag step to a cell for which
\* isValidMove is false, and a click on an unvisited cell for which both path
\* finders return none, change neither the path, nor the history, nor
\* isComplete, nor the error message.
C28_RejectedMoveLeavesSession ==
    [][/\ RejectedClick
       /\ RejectedKey
       /\ \/ UNCHANGED gameVars
          \/ \A p \in BoardCells : MouseEnter(p) => isValidMove(path, p, config)]_vars

\* C28, amended: the same for a keyboard step, for a click, and for a drag
\* step to a cell that is not on the path.  A drag step to a cell on the path,
\* which isValidMove rejects as visited, changes the path exactly when the
\* cell is the one before the head, and then removes the head.
C28_RejectedMoveOffPath ==
    [][/\ RejectedClick
       /\ RejectedKey
       /\ \/ UNCHANGED gameVars
          \/ \A p \in BoardCells :
               /\ (~OnPath(p) /\ MouseEnter(p)) => isValidMove(path, p, config)
               /\ (OnPath(p) /\ MouseEnter(p)) =>
                    (/\ Len(path) >= 2
                     /\ p = At(path, Len(path) - 2)
                     /\ ~isValidMove(path, p, config)
                     /\ path' = Slice(path, 0, Len(path) - 1))]_vars

\* During a drag the head stands next to an unvisited cell that isValidMove
\* rejects: a checkpoint whose rank is not the next one.
C28_Witness ==
    /\ phase = "play"
    /\ isDragging
    /\ ~isComplete
    /\ Len(path) >= 2
    /\ \E p \in BoardCells :
         /\ isAdjacent(HeadCell, p)
         /\ ~OnPath(p)
         /\ ~isValidMove(path, p, config)
         /\ NoRouteTo(p)

\* C29: in every reachable session state on a generated puzzle, the checkpoint
\* ranks carried by the cells of the player path, read in path order, are
\* exactly 1, 2, ..., k for some k between 1 and N, the number of checkpoints:
\* no rank is skipped, repeated or entered out of order.
C29_RanksInOrderOnPath ==
    phase = "play" =>
        LET ranks == RanksAlong(path, config.checkpoints)
            reached == Len(ranks)
        IN  /\ 1 <= reached /\ reached <= TotalCheckpoints(config)
            /\ ranks = [i \in 1..reached |-> i]

\* The player has entered a second checkpoint, left it behind and still has a
\* checkpoint to reach.
C29_Witness ==
    /\ phase = "play"
    /\ LET ranks == RanksAlong(path, config.checkpoints)
       IN  /\ Len(ranks) >= 2
           /\ Len(ranks) < TotalCheckpoints(config)
           /\ pointToString(HeadCell) \notin DOMAIN config.checkpoints

\* C30: whenever the win dialog is shown, the session is complete:
\* showWinModal is true only in states where isComplete is true and the
\* current path satisfies checkWin, under every interleaving of the 500 ms win
\* timeout with undo, clear and new-puzzle actions.  The timeout set by a
\* winning update is never cancelled and the Undo button is not disabled by
\* isComplete, so an undo between the win and the timeout leaves the dialog
\* open on an incomplete session.
C30_WinDialogOnlyWhenComplete ==
    (phase = "play" /\ showWinModal) => (isComplete /\ checkWin(path, config))


\* ---------------------------------------------------------------------------
\* properties of the complete session
\* ---------------------------------------------------------------------------

\* A step of the board or of a movement key.
BoardOrKeyStep ==
    \/ \E p \in BoardCells : Press(p)
    \/ \E p \in BoardCells : MouseEnter(p)
    \/ \E d \in {DIRECTIONS[i] : i \in 1..4} : KeyMove(d)

\* A step of undo, clear or new puzzle.
UndoClearOrNewStep ==
    \/ UndoButton
    \/ KeyUndo
    \/ handleClear
    \/ NewGame
    \/ \E d \in Difficulties : SetDifficulty(d)

\* C31: while the session is complete (isComplete is true), no pointer press,
\* pointer-enter or movement key changes the player path or the undo history;
\* only undo, clear and new puzzle can change them.
C31_CompleteSessionFrozen ==
    [][isComplete =>
         \/ (path' = path /\ history' = history)
         \/ (~BoardOrKeyStep /\ UndoClearOrNewStep)]_vars

\* The puzzle was completed by a drag that is still under way: the pointer can
\* enter further cells, among them the cell before the head.
C31_Witness ==
    /\ phase = "play"
    /\ isComplete
    /\ isDragging
    /\ shouldAllowDrag(inputMode)
    /\ Len(path) >= 2


\* ---------------------------------------------------------------------------
\* properties of undo
\* ---------------------------------------------------------------------------

\* The step has committed the path it started from: that path is the newest
\* entry of the history and the older entries are as before, so that one undo
\* from the state reached restores it.
CommitsCurrentPath ==
    /\ Len(history') = Len(history) + 1
    /\ At(history', Len(history') - 1) = path
    /\ Slice(history', 0, Len(history') - 1) = history

\* The step is an undo: the path is the newest entry of the history and that
\* entry is gone; nothing changes when the history is empty.
RestoresLastCommit ==
    IF Len(history) = 0 THEN UNCHANGED gameVars
    ELSE /\ path' = At(history, Len(history) - 1)
         /\ history' = Slice(history, 0, Len(history) - 1)

BeforeHead(p) == Len(path) >= 2 /\ p = At(path, Len(path) - 2)

\* C33: during a drag, entering a cell that is already on the path changes the
\* path only when that cell is the immediate predecessor of the head, in which
\* case exactly the head is removed; entering the head itself or any older
\* path cell leaves the path unchanged.
C33_StrictRetract ==
    [][\/ path' = path
       \/ \A p \in BoardCells :
            (OnPath(p) /\ MouseEnter(p)) =>
                (BeforeHead(p) /\ path' = Slice(path, 0, Len(path) - 1))]_vars

\* A drag has been retracted by one cell and still has an older cell behind
\* the cell before the head.
C33_Witness ==
    /\ phase = "play"
    /\ isDragging /\ ~isComplete /\ shouldAllowDrag(inputMode)
    /\ Len(path) >= 3
    /\ Len(history) > 0
    /\ Len(At(history, Len(history) - 1)) > Len(path)
    /\ path = SubSeq(At(history, Len(history) - 1), 1, Len(path))

====
